---- MODULE Spec2Model ----
(***************************************************************************)
(* Model of the omnipos-gateway admission pipeline:                        *)
(*   CORS -> RateLimiter.Limit -> httpMux (grpc-gateway) ->                *)
(*   AuthInterceptor.Unary -> backend invoker.                             *)
(*                                                                         *)
(* Strings of the program are sequences of one-character strings, so that  *)
(* prefixing, splitting and trimming are computed as the code computes     *)
(* them.  Durations are held in milliseconds (Go holds nanoseconds; every  *)
(* division of the code truncates to milliseconds or seconds, which gives  *)
(* the same quotient from either unit).                                    *)
(***************************************************************************)
EXTENDS Integers, Sequences, FiniteSets, TLC

VARIABLES cfg, now, ticks, store, publicEndpoints, reqs, served,
          kin, kout, rlog, auth, jwt, registry, marshal, handlers

vars == <<cfg, now, ticks, store, publicEndpoints, reqs, served, kin, kout, rlog, auth, jwt,
          registry, marshal, handlers>>

\* the variables of the pipeline, and those of the specifications of single
\* components
pipeVars == <<cfg, now, ticks, store, publicEndpoints, reqs, served, kin, kout, rlog>>

unitVars == <<auth, jwt, registry, marshal, handlers>>

(***************************************************************************)
(* Bounds of the model.                                                    *)
(***************************************************************************)
MaxInFlight == 1
MaxServed == 2
MaxTicks == 1
MaxLen == 3
MaxLog == 4
MaxCallers == 2
MaxDiscoverCalls == 2

(***************************************************************************)
(* String helpers (package strings, fmt).                                  *)
(***************************************************************************)
Max(a, b) == IF a >= b THEN a ELSE b

HasPrefix(s, p) == Len(s) >= Len(p) /\ SubSeq(s, 1, Len(p)) = p

TrimPrefix(s, p) == IF HasPrefix(s, p) THEN SubSeq(s, Len(p) + 1, Len(s)) ELSE s

Contains(s, c) == \E i \in 1..Len(s) : s[i] = c

\* strings.LastIndex, 1-based; 0 when the character does not occur (Go: -1)
LastIndex(s, c) ==
    IF Contains(s, c) THEN CHOOSE i \in 1..Len(s) : s[i] = c /\ \A j \in (i+1)..Len(s) : s[j] # c
    ELSE 0

\* strings.Split(s, ",")[0]: everything before the first separator
FirstPart(s, c) ==
    IF Contains(s, c)
    THEN SubSeq(s, 1, (CHOOSE i \in 1..Len(s) : s[i] = c /\ \A j \in 1..(i-1) : s[j] # c) - 1)
    ELSE s

IsSpace(c) == c \in {" ", "\t"}

RECURSIVE TrimLeft(_)
TrimLeft(s) == IF s # << >> /\ IsSpace(Head(s)) THEN TrimLeft(Tail(s)) ELSE s

RECURSIVE TrimRight(_)
TrimRight(s) ==
    IF s # << >> /\ IsSpace(s[Len(s)]) THEN TrimRight(SubSeq(s, 1, Len(s) - 1)) ELSE s

TrimSpace(s) == TrimRight(TrimLeft(s))

Digits == <<"0", "1", "2", "3", "4", "5", "6", "7", "8", "9">>

RECURSIVE FormatNat(_)
FormatNat(n) == IF n < 10 THEN <<Digits[n + 1]>> ELSE FormatNat(n \div 10) \o <<Digits[(n % 10) + 1]>>

\* fmt.Sprintf("%d", n)
FormatInt(n) == IF n < 0 THEN <<"-">> \o FormatNat(-n) ELSE FormatNat(n)

\* a map with string keys, as written with Header().Set / md.Set
EmptyMap == [k \in {} |-> << >>]

MapSet(m, k, v) == [x \in (DOMAIN m) \cup {k} |-> IF x = k THEN v ELSE m[x]]

(***************************************************************************)
(* Configuration (config.RateLimitConfig) and the literals of the limiter. *)
(***************************************************************************)
Second == 1000

Millisecond == 1

StatusOK == 200

StatusTooManyRequests == 429

\* mutant: the credential key carries no tier name
RateAuthPrefix_NoTier == <<"r","a","t","e","_","l","i","m","i","t",":">>

RateAuthPrefix == <<"r","a","t","e","_","l","i","m","i","t",":","a","u","t","h",":">>

RateIPPrefix == <<"r","a","t","e","_","l","i","m","i","t",":","i","p",":">>

\* The configurations the model starts from: the limiter enabled or not, an
\* anonymous tier below the authenticated one, and one tier whose burst is
\* below its rate (the environment may set any integers).
Configs ==
    {[Enabled |-> e, PublicRPS |-> 1, PublicBurst |-> 1, AuthRPS |-> 2, AuthBurst |-> 2] : e \in BOOLEAN}
    \cup {[Enabled |-> TRUE, PublicRPS |-> 2, PublicBurst |-> 1, AuthRPS |-> 2, AuthBurst |-> 1]}

(***************************************************************************)
(* Counter Store: redis_rate.Limiter.Allow (GCRA script of redis_rate v10) *)
(* The script keeps, per key, the theoretical arrival time tat in seconds; *)
(* the model keeps tat * Rate in milliseconds so that the emission         *)
(* interval Period / Rate stays exact (a key is always used with the rate  *)
(* of its tier).  A key's expiry (SET .. EX ceil(reset_after)) is not      *)
(* observable: an expired key reads as tat = now, and max(tat, now) = now  *)
(* already holds once reset_after has elapsed.                             *)
(***************************************************************************)
AllowN(st, t, key, limit, n) ==
    LET R == limit.Rate
        nowR == t * R
        tat0 == IF key \in DOMAIN st THEN st[key] ELSE nowR
        tat == Max(tat0, nowR)
        new_tat == tat + limit.Period * n
        allow_at == new_tat - limit.Period * limit.Burst
        diff == nowR - allow_at
    IN  IF diff < 0
        THEN [res |-> [Allowed |-> 0, Remaining |-> 0,
                       RetryAfter |-> (-diff) \div R,
                       ResetAfter |-> (tat - nowR) \div R],
              store |-> st]
        ELSE [res |-> [Allowed |-> n, Remaining |-> diff \div limit.Period,
                       RetryAfter |-> -1,
                       ResetAfter |-> (new_tat - nowR) \div R],
              store |-> IF new_tat - nowR > 0 THEN MapSet(st, key, new_tat) ELSE st]

\* mutant: the script answers without writing the new arrival time
Allow_Stale(st, t, key, limit) == [res |-> AllowN(st, t, key, limit, 1).res, store |-> st]

Allow(st, t, key, limit) == AllowN(st, t, key, limit, 1)

(***************************************************************************)
(* RateLimiter.getLimit and getClientIP.  A request header is held by the  *)
(* value r.Header.Get returns for it: << >> when the header is absent.     *)
(***************************************************************************)
\* mutant: X-Real-IP is looked at before X-Forwarded-For
getClientIP_RealIPFirst(r) ==
    IF r.XRealIP # << >>
    THEN r.XRealIP
    ELSE IF r.XForwardedFor # << >>
    THEN TrimSpace(FirstPart(r.XForwardedFor, ","))
    ELSE IF Contains(r.RemoteAddr, ":")
    THEN SubSeq(r.RemoteAddr, 1, LastIndex(r.RemoteAddr, ":") - 1)
    ELSE r.RemoteAddr

getClientIP(r) ==
    IF r.XForwardedFor # << >>
    THEN TrimSpace(FirstPart(r.XForwardedFor, ","))
    ELSE IF r.XRealIP # << >>
    THEN r.XRealIP
    ELSE IF Contains(r.RemoteAddr, ":")
    THEN SubSeq(r.RemoteAddr, 1, LastIndex(r.RemoteAddr, ":") - 1)
    ELSE r.RemoteAddr

\* mutant: the tiers are swapped
getLimit_SwappedTiers(c, r) ==
    IF r.Authorization # << >>
    THEN [key |-> RateAuthPrefix \o r.Authorization,
          limit |-> [Rate |-> c.PublicRPS, Burst |-> c.PublicBurst, Period |-> Second]]
    ELSE [key |-> RateIPPrefix \o getClientIP(r),
          limit |-> [Rate |-> c.AuthRPS, Burst |-> c.AuthBurst, Period |-> Second]]

\* mutant: the rate is passed as the burst
getLimit_BurstIsRate(c, r) ==
    IF r.Authorization # << >>
    THEN [key |-> RateAuthPrefix \o r.Authorization,
          limit |-> [Rate |-> c.AuthRPS, Burst |-> c.AuthRPS, Period |-> Second]]
    ELSE [key |-> RateIPPrefix \o getClientIP(r),
          limit |-> [Rate |-> c.PublicRPS, Burst |-> c.PublicRPS, Period |-> Second]]

\* mutant: a forwarded-for header takes the request to the anonymous tier
getLimit_ForwardedFirst(c, r) ==
    IF r.Authorization # << >> /\ r.XForwardedFor = << >>
    THEN [key |-> RateAuthPrefix \o r.Authorization,
          limit |-> [Rate |-> c.AuthRPS, Burst |-> c.AuthBurst, Period |-> Second]]
    ELSE [key |-> RateIPPrefix \o getClientIP(r),
          limit |-> [Rate |-> c.PublicRPS, Burst |-> c.PublicBurst, Period |-> Second]]

getLimit(c, r) ==
    IF r.Authorization # << >>
    THEN [key |-> RateAuthPrefix \o r.Authorization,
          limit |-> [Rate |-> c.AuthRPS, Burst |-> c.AuthBurst, Period |-> Second]]
    ELSE [key |-> RateIPPrefix \o getClientIP(r),
          limit |-> [Rate |-> c.PublicRPS, Burst |-> c.PublicBurst, Period |-> Second]]

(***************************************************************************)
(* RateLimiter.Limit: one run of the handler for request r, the Counter    *)
(* Store failing (storeErr) or answering.  The result says whether         *)
(* next.ServeHTTP was called, what was written to the response, which key  *)
(* was derived and how often the store was called.                         *)
(***************************************************************************)
NoKey == <<"-">>

NoResult == [Allowed |-> -1, Remaining |-> -1, RetryAfter |-> -1, ResetAfter |-> -1]

\* mutant: the key is derived before the enable flag is looked at
Bypass_KeyFirst(c, r, st) ==
    [next |-> 1, header |-> EmptyMap, status |-> 0, key |-> getLimit(c, r).key, storeCalls |-> 0,
     storeErr |-> FALSE, res |-> NoResult, store |-> st]

\* if !rl.cfg.Enabled { next.ServeHTTP(w, r); return }
Bypass(c, r, st) ==
    [next |-> 1, header |-> EmptyMap, status |-> 0, key |-> NoKey, storeCalls |-> 0,
     storeErr |-> FALSE, res |-> NoResult, store |-> st]

\* mutant: the limiter fails closed on a store error
FailOpen_Closed(key, st) ==
    [next |-> 0, header |-> EmptyMap, status |-> StatusTooManyRequests, key |-> key, storeCalls |-> 1,
     storeErr |-> TRUE, res |-> NoResult, store |-> st]

\* if err != nil { log; next.ServeHTTP(w, r); return }
FailOpen(key, st) ==
    [next |-> 1, header |-> EmptyMap, status |-> 0, key |-> key, storeCalls |-> 1,
     storeErr |-> TRUE, res |-> NoResult, store |-> st]

\* mutant: the reset delay is written in seconds
RateLimitHeaders_ResetSeconds(limit, res) ==
    MapSet(MapSet(MapSet(EmptyMap,
        "X-RateLimit-Limit", FormatInt(limit.Rate)),
        "X-RateLimit-Remaining", FormatInt(res.Remaining)),
        "X-RateLimit-Reset", FormatInt(res.ResetAfter \div Second))

\* the three w.Header().Set calls made for every answer of the store
RateLimitHeaders(limit, res) ==
    MapSet(MapSet(MapSet(EmptyMap,
        "X-RateLimit-Limit", FormatInt(limit.Rate)),
        "X-RateLimit-Remaining", FormatInt(res.Remaining)),
        "X-RateLimit-Reset", FormatInt(res.ResetAfter \div Millisecond))

\* mutant: the return after http.Error is missing
TooManyRequests_NoReturn(h, key, a) ==
    [next |-> 1, header |-> MapSet(h, "Retry-After", FormatInt(a.res.RetryAfter \div Second)),
     status |-> StatusTooManyRequests, key |-> key, storeCalls |-> 1, storeErr |-> FALSE,
     res |-> a.res, store |-> a.store]

\* if res.Allowed == 0 { Retry-After; http.Error(429); return }
TooManyRequests(h, key, a) ==
    [next |-> 0, header |-> MapSet(h, "Retry-After", FormatInt(a.res.RetryAfter \div Second)),
     status |-> StatusTooManyRequests, key |-> key, storeCalls |-> 1, storeErr |-> FALSE,
     res |-> a.res, store |-> a.store]

\* next.ServeHTTP(w, r) after an allowing answer
Forward(h, key, a) ==
    [next |-> 1, header |-> h, status |-> 0, key |-> key, storeCalls |-> 1,
     storeErr |-> FALSE, res |-> a.res, store |-> a.store]

Limit(c, r, st, t, storeErr) ==
    IF ~c.Enabled
    THEN Bypass(c, r, st)
    ELSE LET kl == getLimit(c, r)
             a == Allow(st, t, kl.key, kl.limit)
         IN  IF storeErr THEN FailOpen(kl.key, st)
             ELSE IF a.res.Allowed = 0
             THEN TooManyRequests(RateLimitHeaders(kl.limit, a.res), kl.key, a)
             ELSE Forward(RateLimitHeaders(kl.limit, a.res), kl.key, a)

(***************************************************************************)
(* Credential Validator (JWTHelper).  A token string is one character; the *)
(* table below gives what jwt.ParseWithClaims finds in it: whether it      *)
(* parses, its signing method, whether the HMAC signature verifies under   *)
(* the shared secret, its exp claim (milliseconds, -1 when the claim is    *)
(* absent) and its merchant_id claim (empty when the claim is absent, as   *)
(* encoding/json leaves the field of JWTClaims).                           *)
(***************************************************************************)
NoExp == -1

ParseToken(tokenString) ==
    CASE tokenString = <<"V">> -> [wellFormed |-> TRUE, alg |-> "HS256", sigOK |-> TRUE, exp |-> 1000000, MerchantID |-> <<"m">>]
      [] tokenString = <<"X">> -> [wellFormed |-> TRUE, alg |-> "HS256", sigOK |-> TRUE, exp |-> 0, MerchantID |-> <<"m">>]
      [] tokenString = <<"T">> -> [wellFormed |-> TRUE, alg |-> "HS256", sigOK |-> TRUE, exp |-> 750, MerchantID |-> <<"m">>]
      [] tokenString = <<"E">> -> [wellFormed |-> TRUE, alg |-> "HS256", sigOK |-> TRUE, exp |-> NoExp, MerchantID |-> <<"m">>]
      [] tokenString = <<"M">> -> [wellFormed |-> TRUE, alg |-> "HS256", sigOK |-> TRUE, exp |-> 1000000, MerchantID |-> << >>]
      [] tokenString = <<"S">> -> [wellFormed |-> TRUE, alg |-> "HS256", sigOK |-> FALSE, exp |-> 1000000, MerchantID |-> <<"m">>]
      [] tokenString = <<"N">> -> [wellFormed |-> TRUE, alg |-> "none", sigOK |-> TRUE, exp |-> 1000000, MerchantID |-> <<"m">>]
      [] tokenString = <<"R">> -> [wellFormed |-> TRUE, alg |-> "RS256", sigOK |-> TRUE, exp |-> 0, MerchantID |-> <<"m">>]
      [] tokenString = <<"U">> -> [wellFormed |-> TRUE, alg |-> "XS256", sigOK |-> TRUE, exp |-> 1000000, MerchantID |-> <<"m">>]
      [] OTHER -> [wellFormed |-> FALSE, alg |-> "", sigOK |-> FALSE, exp |-> NoExp, MerchantID |-> << >>]

\* the signing methods registered with the jwt package (jwt.GetSigningMethod
\* finds no other), and those of type *jwt.SigningMethodHMAC
SigningMethods == {"HS256", "HS384", "HS512", "RS256", "RS384", "RS512", "ES256", "ES384",
                   "ES512", "PS256", "PS384", "PS512", "EdDSA", "none"}

SigningMethodHMAC == {"HS256", "HS384", "HS512"}

\* An error value: id is its identity (what == compares; every error the jwt
\* package builds with its newError is a fresh wrapper), is the set of
\* sentinel errors errors.Is finds in it.
ErrNil == [id |-> "nil", is |-> {}]

ErrInvalidToken == [id |-> "ErrInvalidToken", is |-> {"ErrInvalidToken"}]

ErrExpiredToken == [id |-> "ErrExpiredToken", is |-> {"ErrExpiredToken"}]

\* jwt's newError(message, err, more...): a wrapper of err and of what the
\* errors of more wrap
newError(sentinel, more) == [id |-> "jwt.newError", is |-> {sentinel} \cup more]

NoClaims == [wellFormed |-> FALSE, alg |-> "", sigOK |-> FALSE, exp |-> NoExp, MerchantID |-> << >>]

\* JWTHelper.ValidateToken.  jwt.ParseWithClaims fails on a token that does
\* not parse, on a signing method that is not registered, on the error of
\* the key function, on a signature that does not verify and, reading the
\* clock at t, on an exp claim that is not after t; ValidateToken returns
\* that error as it is.  Its own expiry check reads the clock again, at t2.
ValidateToken(tokenString, t, t2) ==
    LET tok == ParseToken(tokenString)
    IN  IF ~tok.wellFormed
        THEN [err |-> newError("jwt.ErrTokenMalformed", {}), claims |-> NoClaims]
        ELSE IF tok.alg \notin SigningMethods
        THEN [err |-> newError("jwt.ErrTokenUnverifiable", {}), claims |-> NoClaims]
        ELSE IF tok.alg \notin SigningMethodHMAC
        THEN [err |-> newError("jwt.ErrTokenUnverifiable", ErrInvalidToken.is), claims |-> NoClaims]
        ELSE IF ~tok.sigOK
        THEN [err |-> newError("jwt.ErrTokenSignatureInvalid", {"jwt.ErrSignatureInvalid"}), claims |-> NoClaims]
        ELSE IF tok.exp # NoExp /\ ~(t < tok.exp)
        THEN [err |-> newError("jwt.ErrTokenInvalidClaims", {"jwt.ErrTokenExpired"}), claims |-> NoClaims]
        ELSE IF tok.exp # NoExp /\ tok.exp < t2
        THEN [err |-> ErrExpiredToken, claims |-> NoClaims]
        ELSE [err |-> ErrNil, claims |-> tok]

ExtractMerchantID(tokenString, t, t2) ==
    LET v == ValidateToken(tokenString, t, t2)
    IN  IF v.err # ErrNil THEN [err |-> v.err, merchantID |-> << >>]
        ELSE [err |-> ErrNil, merchantID |-> v.claims.MerchantID]

(***************************************************************************)
(* Call metadata (google.golang.org/grpc/metadata): a map from key to the  *)
(* sequence of its values; a context holds incoming and outgoing metadata, *)
(* each present (ok) or not.                                               *)
(***************************************************************************)
NoMD == [ok |-> FALSE, md |-> EmptyMap]

MDGet(md, k) == IF k \in DOMAIN md THEN md[k] ELSE << >>

\* mutant: the new metadata replaces the existing one
MDJoin_Replace(a, b) == b

\* metadata.Join(a, b): the values of b appended to those of a, key by key
MDJoin(a, b) == [k \in (DOMAIN a) \cup (DOMAIN b) |-> MDGet(a, k) \o MDGet(b, k)]

\* mutant: the prefix lacks the space
BearerPrefix_NoSpace == <<"B","e","a","r","e","r">>

BearerPrefix == <<"B","e","a","r","e","r"," ">>

\* codes.OK and codes.Unauthenticated
OK == 0

CodeUnauthenticated == 16

NilError == [code |-> OK, msg |-> ""]

\* mutant: a rejection is reported as codes.Internal
Unauthenticated_Internal(msg) == [code |-> 13, msg |-> msg]

\* status.Error(codes.Unauthenticated, msg)
Unauthenticated(msg) == [code |-> CodeUnauthenticated, msg |-> msg]

(***************************************************************************)
(* AuthInterceptor.Unary for one call: invoked says whether the invoker is *)
(* called, ctx is the context handed to it, err the error returned without *)
(* calling it (NilError when the invoker's result is returned instead),    *)
(* validated whether the Credential Validator was called.  t and t2 are    *)
(* the two readings of the clock the validation makes.                     *)
(***************************************************************************)
\* mutant: the registry is looked up without the leading "/" of the method
IsPublic_NoSlash(public, method) == Tail(method) \in public

\* if a.publicEndpoints[method]
IsPublic(public, method) == method \in public

\* the metadata the credential is looked up in: the incoming metadata of the
\* context, or the outgoing metadata when there is no incoming metadata or
\* it has no key
Metadata(ctx) ==
    IF ~ctx.incoming.ok \/ Cardinality(DOMAIN ctx.incoming.md) = 0 THEN ctx.outgoing ELSE ctx.incoming

\* mutant: a key that is absent is read as one empty value
AuthHeaders_Blank(md) ==
    IF Len(MDGet(md, "authorization")) = 0
    THEN (IF Len(MDGet(md, "grpcgateway-authorization")) = 0 THEN << << >> >>
          ELSE MDGet(md, "grpcgateway-authorization"))
    ELSE MDGet(md, "authorization")

\* md.Get("authorization"), else md.Get("grpcgateway-authorization")
AuthHeaders(md) ==
    IF Len(MDGet(md, "authorization")) = 0 THEN MDGet(md, "grpcgateway-authorization")
    ELSE MDGet(md, "authorization")

Unary(public, ctx, method, t, t2) ==
    IF IsPublic(public, method)
    THEN [invoked |-> TRUE, ctx |-> ctx, err |-> NilError, validated |-> FALSE]
    ELSE LET md == Metadata(ctx)
             authHeaders == AuthHeaders(md.md)
         IN  IF ~md.ok \/ Cardinality(DOMAIN md.md) = 0
             THEN [invoked |-> FALSE, ctx |-> ctx, err |-> Unauthenticated("missing authorization header"), validated |-> FALSE]
             ELSE IF Len(authHeaders) = 0
             THEN [invoked |-> FALSE, ctx |-> ctx, err |-> Unauthenticated("missing authorization header"), validated |-> FALSE]
             ELSE IF ~HasPrefix(authHeaders[1], BearerPrefix)
             THEN [invoked |-> FALSE, ctx |-> ctx, err |-> Unauthenticated("invalid authorization header format"), validated |-> FALSE]
             ELSE LET x == ExtractMerchantID(TrimPrefix(authHeaders[1], BearerPrefix), t, t2)
                      outgoingMD == MapSet(EmptyMap, "x-merchant-id", <<x.merchantID>>)
                      joined == IF ctx.outgoing.ok THEN MDJoin(ctx.outgoing.md, outgoingMD) ELSE outgoingMD
                  IN  IF x.err # ErrNil
                      THEN [invoked |-> FALSE, ctx |-> ctx,
                            err |-> IF x.err = ErrExpiredToken
                                    THEN Unauthenticated("token has expired")
                                    ELSE Unauthenticated("invalid token"),
                            validated |-> TRUE]
                      ELSE [invoked |-> TRUE,
                            ctx |-> [incoming |-> ctx.incoming, outgoing |-> [ok |-> TRUE, md |-> joined]],
                            err |-> NilError, validated |-> TRUE]

(***************************************************************************)
(* Service descriptors and DiscoverPublicEndpoints.  A method descriptor   *)
(* carries the (auth.v1.public_endpoint) option: absent, true or false;    *)
(* "nil" stands for a method whose Options() is nil and "other" for an     *)
(* extension value that is not a bool.                                     *)
(***************************************************************************)
MethodDescriptors ==
    {[service |-> "user.v1.MerchantService", name |-> "LoginMerchant", option |-> "true"],
     [service |-> "user.v1.MerchantService", name |-> "GetMerchant", option |-> "absent"],
     [service |-> "user.v1.MerchantService", name |-> "UpdateMerchant", option |-> "false"],
     [service |-> "user.v1.MerchantService", name |-> "DeleteMerchant", option |-> "nil"],
     [service |-> "user.v1.MerchantService", name |-> "ListMerchants", option |-> "other"]}

\* mutant: a method is public unless the option says false
isPublicEndpoint_Default(method) == method.option # "false"

\* opts == nil -> false; HasExtension and the value is a bool -> the value;
\* else false
isPublicEndpoint(method) ==
    IF method.option = "nil" THEN FALSE
    ELSE IF method.option # "absent" /\ method.option \in {"true", "false"}
    THEN method.option = "true"
    ELSE FALSE

FullMethodName(method) == <<"/", method.service, "/", method.name>>

DiscoverPublicEndpoints == {FullMethodName(m) : m \in {d \in MethodDescriptors : isPublicEndpoint(d)}}

\* A Go map value: nil, or a map holding the keys m (each with value true)
NilMap == [isNil |-> TRUE, m |-> {}]

MakeMap(keys) == [isNil |-> FALSE, m |-> keys]

\* the goroutines that call DiscoverPublicEndpoints; a caller is idle, or in
\* the call at "lock" (waiting for the lock), "check" (lock held, before line
\* 25), "scan" (lines 29-51) or "return" (before the deferred Unlock), with
\* the local map publicEndpoints and the descriptors RangeFiles has still to
\* visit
Callers == 1..MaxCallers

IdleCaller == [pc |-> "idle", calls |-> 0, publicEndpoints |-> NilMap, todo |-> {}, ret |-> NilMap]

\* package state: the registered descriptors, publicEndpointsCacheLock (0 when
\* free, else its holder), publicEndpointsCache; scans counts the scans
\* started and returned collects the values calls have returned; interceptor
\* is the map the AuthInterceptor was built with and lookups collects what
\* its lookups found
NoRegistry == [files |-> MethodDescriptors, mu |-> 0, cache |-> NilMap, scans |-> 0,
               returned |-> {}, th |-> [t \in Callers |-> IdleCaller],
               interceptor |-> NilMap, lookups |-> {}]

\* mutant: the lock is not taken
LockFree_Always(mu) == TRUE

\* publicEndpointsCacheLock.Lock() returns only when no one holds the lock
LockFree(mu) == mu = 0

\* if publicEndpointsCache != nil
CacheHit(cache) == ~cache.isNil

PublicMethod == <<"/", "user.v1.MerchantService", "/", "LoginMerchant">>

PrivateMethod == <<"/", "user.v1.MerchantService", "/", "GetMerchant">>

(***************************************************************************)
(* The grpc-gateway mux of main: the incoming header matcher and the       *)
(* metadata annotator copy a non-empty Authorization header into the       *)
(* outgoing metadata of the call under "authorization".                    *)
(***************************************************************************)
HTTPHeaderMatcher(key) == IF key = "Authorization" THEN "authorization" ELSE "-"

AnnotateContext(r) ==
    LET matched == IF r.Authorization # << >>
                   THEN MapSet(EmptyMap, HTTPHeaderMatcher("Authorization"), <<r.Authorization>>)
                   ELSE EmptyMap
        annotated == IF r.Authorization # << >>
                     THEN MapSet(EmptyMap, "authorization", <<r.Authorization>>)
                     ELSE EmptyMap
    IN  [incoming |-> NoMD, outgoing |-> [ok |-> TRUE, md |-> MDJoin(matched, annotated)]]

(***************************************************************************)
(* runtime.HTTPStatusFromCode of grpc-gateway: the HTTP status the gateway *)
(* answers for the status code of a call.                                  *)
(***************************************************************************)
HTTPStatusFromCode(code) ==
    CASE code = 0 -> 200
      [] code = 1 -> 499
      [] code \in {3, 9, 11} -> 400
      [] code = 4 -> 504
      [] code = 5 -> 404
      [] code \in {6, 10} -> 409
      [] code = 7 -> 403
      [] code = 16 -> 401
      [] code = 8 -> 429
      [] code = 12 -> 501
      [] code = 14 -> 503
      [] OTHER -> 500

(***************************************************************************)
(* CustomMarshaler.Marshal.  A value v handed to Marshal is a record: its  *)
(* dynamic type, for a map[string]interface{} whether the keys "code" and  *)
(* "message" are present and the dynamic type and value of each, for a     *)
(* *status.Status its Code and Message, for a payload its fields.  A       *)
(* float64 code is code + frac/10.  JSON text is a sequence of characters. *)
(***************************************************************************)
\* codes.Code(val): the conversion to uint32.  A negative val becomes
\* 2^32 + val, a number above 2^31 that is no gRPC code; it is held as the
\* largest number the checker can hold.
ToCode(val) == IF val >= 0 THEN val ELSE 2147483647

\* the characters of a string as encoding/json writes them inside quotes
RECURSIVE EscapeJSON(_)
EscapeJSON(str) ==
    IF Len(str) = 0 THEN << >>
    ELSE (IF Head(str) \in {"\"", "\\"} THEN <<"\\", Head(str)>> ELSE <<Head(str)>>)
         \o EscapeJSON(Tail(str))

\* mutant: the characters are written between the quotes as they are
JSONString_Raw(str) == <<"\"">> \o str \o <<"\"">>

JSONString(str) == <<"\"">> \o EscapeJSON(str) \o <<"\"">>

JSONNull == <<"n","u","l","l">>

\* an interface{} value as encoding/json writes it
JSONValue(x) ==
    CASE x.type = "nil" -> JSONNull
      [] x.type = "string" -> JSONString(x.str)
      [] OTHER -> FormatInt(x.num)

\* mutant: the map of the failure path has no "data" key
MarshalErrorMap_NoData(statusCode, msg) ==
    <<"{","\"","m","e","s","s","a","g","e","\"",":">> \o JSONValue(msg) \o <<",","\"","s","t","a","t","u","s","\"",":">> \o FormatInt(statusCode) \o <<"}">>

\* json.Marshal of a map[string]interface{} with the keys "status", "message"
\* and "data": the keys are written in sorted order
MarshalErrorMap(statusCode, msg) ==
    <<"{","\"","d","a","t","a","\"",":">> \o JSONNull \o <<",","\"","m","e","s","s","a","g","e","\"",":">> \o JSONValue(msg) \o <<",","\"","s","t","a","t","u","s","\"",":">> \o FormatInt(statusCode) \o <<"}">>

\* c.JSONPb.Marshal of a payload: a JSON object of its string fields, null
\* for a nil value, an error for a value that has no JSON form
RECURSIVE MarshalFields(_)
MarshalFields(fields) ==
    IF Len(fields) = 0 THEN << >>
    ELSE JSONString(fields[1].name) \o <<":">> \o JSONString(fields[1].value)
         \o (IF Len(fields) > 1 THEN <<",">> ELSE << >>) \o MarshalFields(Tail(fields))

JSONPbMarshal(v) ==
    CASE v.type = "nil" -> [data |-> JSONNull, err |-> FALSE]
      [] v.type = "chan" -> [data |-> << >>, err |-> TRUE]
      [] OTHER -> [data |-> <<"{">> \o MarshalFields(v.fields) \o <<"}">>, err |-> FALSE]

\* json.Marshal of a StandardResponse: the fields in their order of declaration
MarshalStandardResponse(Status, Message, Data) ==
    <<"{","\"","s","t","a","t","u","s","\"",":">> \o FormatInt(Status) \o <<",","\"","m","e","s","s","a","g","e","\"",":">> \o JSONString(Message) \o <<",","\"","d","a","t","a","\"",":">> \o Data \o <<"}">>

\* lines 43-58: the status code of an error map
MarshalStatusCode(v) ==
    CASE v.codeType = "int" -> HTTPStatusFromCode(ToCode(v.code))
      [] v.codeType = "float64" -> HTTPStatusFromCode(ToCode(v.code))
      [] v.codeType = "int32" -> HTTPStatusFromCode(ToCode(v.code))
      [] OTHER -> 200

Marshal(v) ==
    IF v.type = "map[string]interface{}" /\ v.hasCode /\ v.hasMessage
    THEN [bytes |-> MarshalErrorMap(MarshalStatusCode(v), v.message), err |-> FALSE]
    ELSE IF v.type = "*status.Status"
    THEN [bytes |-> MarshalErrorMap(HTTPStatusFromCode(ToCode(v.code)), v.message), err |-> FALSE]
    ELSE IF JSONPbMarshal(v).err
    THEN [bytes |-> << >>, err |-> TRUE]
    ELSE [bytes |-> MarshalStandardResponse(200, <<"s","u","c","c","e","s","s">>, JSONPbMarshal(v).data), err |-> FALSE]

NoValue == [type |-> "nil", hasCode |-> FALSE, codeType |-> "", code |-> 0, frac |-> 0,
            hasMessage |-> FALSE, message |-> [type |-> "nil", str |-> << >>, num |-> 0],
            fields |-> << >>]

NoMarshal == [v |-> NoValue, done |-> FALSE, out |-> [bytes |-> << >>, err |-> FALSE]]

(***************************************************************************)
(* The answers of the grpc-gateway mux, written with the marshaler main    *)
(* registers for every content type.                                       *)
(***************************************************************************)
\* the characters of the messages of the errors of the model
MessageChars(msg) ==
    CASE msg = "merchant not found" -> <<"m","e","r","c","h","a","n","t"," ","n","o","t"," ","f","o","u","n","d">>
      [] msg = "missing authorization header" -> <<"m","i","s","s","i","n","g"," ","a","u","t","h","o","r","i","z","a","t","i","o","n"," ","h","e","a","d","e","r">>
      [] msg = "invalid authorization header format" -> <<"i","n","v","a","l","i","d"," ","a","u","t","h","o","r","i","z","a","t","i","o","n"," ","h","e","a","d","e","r"," ","f","o","r","m","a","t">>
      [] msg = "invalid token" -> <<"i","n","v","a","l","i","d"," ","t","o","k","e","n">>
      [] msg = "token has expired" -> <<"t","o","k","e","n"," ","h","a","s"," ","e","x","p","i","r","e","d">>
      [] msg = "Not Found" -> <<"N","o","t"," ","F","o","u","n","d">>
      [] OTHER -> << >>

\* s.Proto() of the status of an error: the message the error handler hands
\* to the marshaler
StatusProto(e) ==
    [NoValue EXCEPT !.type = "*status.Status", !.codeType = "int32", !.code = e.code,
                    !.message = [type |-> "string", str |-> MessageChars(e.msg), num |-> 0]]

\* the error handler of the mux: the HTTP status of the code, the body from
\* the marshaler
HTTPError(e) == [status |-> HTTPStatusFromCode(e.code), body |-> Marshal(StatusProto(e)).bytes]

\* the reply message of the backend
BackendReply ==
    [NoValue EXCEPT !.type = "proto.Message",
                    !.fields = <<[name |-> <<"f","o","o">>, value |-> <<"b","a","r">>]>>]

\* the reply of a call without error is written with status 200
ForwardResponseMessage(resp) == [status |-> StatusOK, body |-> Marshal(resp).bytes]

(***************************************************************************)
(* The server of main: handler := CORS(rateLimiter.Limit(httpMux)).        *)
(***************************************************************************)
\* mutant: the mux is wrapped by CORS only
HandlerChain_NoLimit == <<"CORS", "httpMux">>

HandlerChain == <<"CORS", "Limit", "httpMux">>

\* the handler a middleware calls as next.ServeHTTP
NextHandler(h) == HandlerChain[(CHOOSE i \in 1..Len(HandlerChain) : HandlerChain[i] = h) + 1]

\* the requests the pipeline is driven with: a preflight, calls of a public
\* and of a non-public method and a path no gateway route matches, without
\* credential, with a valid, an expired and a prefix-less bearer token
AuthValues == {<< >>, BearerPrefix \o <<"V">>, BearerPrefix \o <<"X">>, <<"V">>}

Requests ==
    {r \in [method : {"GET", "OPTIONS"}, route : {PublicMethod, PrivateMethod, <<"404">>},
            Authorization : AuthValues, XForwardedFor : {<< >>}, XRealIP : {<< >>},
            RemoteAddr : {<<"9", ":", "1">>}] :
        /\ r.method = "OPTIONS" => r.route = PrivateMethod /\ r.Authorization = << >>
        /\ r.route = <<"404">> => r.Authorization = << >>}

\* the results a backend call can have: success or a NotFound status
BackendResults == {NilError, [code |-> 5, msg |-> "merchant not found"]}

NoCtx == [incoming |-> NoMD, outgoing |-> NoMD]

NoRequest == [method |-> "", route |-> << >>, Authorization |-> << >>, XForwardedFor |-> << >>,
              XRealIP |-> << >>, RemoteAddr |-> << >>]

Idle ==
    [pc |-> "idle", in |-> NoRequest, header |-> EmptyMap, status |-> 0, statusBy |-> "",
     trace |-> << >>, key |-> NoKey, storeCalls |-> 0, storeErr |-> FALSE, nextCalls |-> 0,
     res |-> NoResult,
     ctxIn |-> NoCtx, ctxOut |-> NoCtx, invokerCalls |-> 0, rpcErr |-> NilError,
     backendErr |-> NilError, validated |-> FALSE, body |-> << >>]

Slots == 1..MaxInFlight

ClockSteps == {500}

\* the handler goroutines of the limiter
MaxHandlers == 2

Handlers == 1..MaxHandlers

IdleHandler ==
    [pc |-> "idle", in |-> NoRequest, key |-> NoKey, limit |-> [Rate |-> 0, Burst |-> 0, Period |-> 0],
     res |-> NoResult, at |-> -1, storeErr |-> FALSE, ctxDone |-> FALSE, next |-> 0, status |-> 0,
     header |-> EmptyMap, nextCtxDone |-> FALSE]

NoHandlers == [h \in Handlers |-> IdleHandler]

NoOutput == [done |-> FALSE, key |-> NoKey, limit |-> [Rate |-> 0, Burst |-> 0, Period |-> 0]]

\* the time that can pass between the two readings of the clock made while
\* one token is validated
ClockSkews == {0, 500}

NoReply == [invoked |-> FALSE, ctx |-> NoCtx, err |-> NilError, validated |-> FALSE]

NoCall == [ctx |-> NoCtx, method |-> << >>, done |-> FALSE, t |-> 0, t2 |-> 0,
           invokerCalls |-> 0, out |-> NoReply]

NoValidation == [tokenString |-> << >>, done |-> FALSE, t |-> 0, t2 |-> 0,
                 out |-> [err |-> ErrNil, claims |-> NoClaims]]

Init ==
    /\ cfg \in Configs
    /\ now = 0
    /\ ticks = 0
    /\ store = EmptyMap
    /\ publicEndpoints = DiscoverPublicEndpoints
    /\ reqs = [s \in Slots |-> Idle]
    /\ served = 0
    /\ kin = NoRequest
    /\ kout = NoOutput
    /\ rlog = << >>
    /\ auth = NoCall
    /\ jwt = NoValidation
    /\ registry = NoRegistry
    /\ marshal = NoMarshal
    /\ handlers = NoHandlers

\* the server accepts a request on a free connection slot
Arrive(s) ==
    /\ reqs[s].pc \in {"idle", "done"}
    /\ served < MaxServed
    /\ \E r \in Requests :
         reqs' = [reqs EXCEPT ![s] = [Idle EXCEPT !.pc = HandlerChain[1], !.in = r]]
    /\ served' = served + 1
    /\ UNCHANGED <<cfg, now, ticks, store, publicEndpoints, kin, kout, rlog, unitVars>>

CORSHeaders ==
    MapSet(MapSet(MapSet(MapSet(EmptyMap,
        "Access-Control-Allow-Origin", <<"*">>),
        "Access-Control-Allow-Methods", <<"GET, POST, PUT, DELETE, OPTIONS, PATCH">>),
        "Access-Control-Allow-Headers", <<"Content-Type, Authorization, X-Requested-With">>),
        "Access-Control-Allow-Credentials", <<"true">>)

\* header map h with the entries of w written over it
MapMerge(h, w) == [k \in (DOMAIN h) \cup (DOMAIN w) |-> IF k \in DOMAIN w THEN w[k] ELSE h[k]]

\* mutant: a preflight request is passed to the next handler like any other
CORS_PassPreflight(s) ==
    /\ reqs[s].pc = "CORS"
    /\ reqs' = [reqs EXCEPT ![s] =
         [@ EXCEPT !.header = MapMerge(@, CORSHeaders), !.trace = Append(@, "CORS"),
                   !.pc = NextHandler("CORS")]]
    /\ UNCHANGED <<cfg, now, ticks, store, publicEndpoints, served, kin, kout, rlog, unitVars>>

CORS(s) ==
    /\ reqs[s].pc = "CORS"
    /\ reqs' = [reqs EXCEPT ![s] =
         IF reqs[s].in.method = "OPTIONS"
         THEN [@ EXCEPT !.header = MapMerge(@, CORSHeaders), !.trace = Append(@, "CORS"),
                        !.status = StatusOK, !.statusBy = "CORS", !.pc = "done"]
         ELSE [@ EXCEPT !.header = MapMerge(@, CORSHeaders), !.trace = Append(@, "CORS"),
                        !.pc = NextHandler("CORS")]]
    /\ UNCHANGED <<cfg, now, ticks, store, publicEndpoints, served, kin, kout, rlog, unitVars>>

RateLimit(s) ==
    /\ reqs[s].pc = "Limit"
    /\ \E storeErr \in BOOLEAN :
         LET l == Limit(cfg, reqs[s].in, store, now, storeErr)
         IN  /\ reqs' = [reqs EXCEPT ![s] =
                  [@ EXCEPT !.header = MapMerge(@, l.header), !.trace = Append(@, "Limit"),
                            !.key = l.key, !.storeCalls = @ + l.storeCalls,
                            !.storeErr = l.storeErr, !.nextCalls = @ + l.next,
                            !.res = l.res, !.status = l.status,
                            !.statusBy = IF l.status # 0 THEN "Limit" ELSE @,
                            !.pc = IF l.next > 0 THEN NextHandler("Limit") ELSE "done"]]
             /\ store' = l.store
    /\ UNCHANGED <<cfg, now, ticks, publicEndpoints, served, kin, kout, rlog, unitVars>>

\* httpMux hands the request to the grpc-gateway mux, which either has no
\* route for it or makes the call of the route's method through the
\* interceptor of the connection
HttpMux(s) ==
    /\ reqs[s].pc = "httpMux"
    /\ \E skew \in ClockSkews :
         LET r == reqs[s].in
             ctx == AnnotateContext(r)
             u == Unary(publicEndpoints, ctx, r.route, now, now + skew)
         IN  reqs' = [reqs EXCEPT ![s] =
               IF r.route \notin {PublicMethod, PrivateMethod}
               THEN [@ EXCEPT !.trace = Append(@, "httpMux"), !.status = 404,
                              !.body = HTTPError([code |-> 5, msg |-> "Not Found"]).body,
                              !.statusBy = "httpMux", !.pc = "done"]
               ELSE IF u.invoked
               THEN [@ EXCEPT !.trace = @ \o <<"httpMux", "Unary", "invoker">>, !.ctxIn = ctx,
                              !.ctxOut = u.ctx, !.invokerCalls = @ + 1,
                              !.validated = u.validated, !.pc = "backend"]
               ELSE [@ EXCEPT !.trace = @ \o <<"httpMux", "Unary">>, !.ctxIn = ctx,
                              !.rpcErr = u.err, !.validated = u.validated,
                              !.status = HTTPError(u.err).status, !.body = HTTPError(u.err).body,
                              !.statusBy = "Unary", !.pc = "done"]]
    /\ UNCHANGED <<cfg, now, ticks, store, publicEndpoints, served, kin, kout, rlog, unitVars>>

\* mutant: the interceptor drops the error of the invoker
Backend_Swallowed(s) ==
    /\ reqs[s].pc = "backend"
    /\ \E e \in BackendResults :
         reqs' = [reqs EXCEPT ![s] =
             [@ EXCEPT !.backendErr = e, !.rpcErr = NilError,
                       !.status = ForwardResponseMessage(BackendReply).status,
                       !.body = ForwardResponseMessage(BackendReply).body,
                       !.statusBy = "backend", !.pc = "done"]]
    /\ UNCHANGED <<cfg, now, ticks, store, publicEndpoints, served, kin, kout, rlog, unitVars>>

\* the backend answers the call; the interceptor returns the invoker's
\* result, and the mux writes the reply or the error
Backend(s) ==
    /\ reqs[s].pc = "backend"
    /\ \E e \in BackendResults :
         LET ans == IF e = NilError THEN ForwardResponseMessage(BackendReply) ELSE HTTPError(e)
         IN  reqs' = [reqs EXCEPT ![s] =
                 [@ EXCEPT !.backendErr = e, !.rpcErr = e, !.status = ans.status, !.body = ans.body,
                           !.statusBy = "backend", !.pc = "done"]]
    /\ UNCHANGED <<cfg, now, ticks, store, publicEndpoints, served, kin, kout, rlog, unitVars>>

Tick ==
    /\ ticks < MaxTicks
    /\ \E d \in ClockSteps : now' = now + d
    /\ ticks' = ticks + 1
    /\ UNCHANGED <<cfg, store, publicEndpoints, reqs, served, kin, kout, rlog, unitVars>>

Next ==
    \/ \E s \in Slots : Arrive(s)
    \/ \E s \in Slots : CORS(s)
    \/ \E s \in Slots : RateLimit(s)
    \/ \E s \in Slots : HttpMux(s)
    \/ \E s \in Slots : Backend(s)
    \/ Tick

Spec == Init /\ [][Next]_vars

(***************************************************************************)
(* Properties of the pipeline (specification Spec).                        *)
(***************************************************************************)
Position(tr, h) == IF \E i \in 1..Len(tr) : tr[i] = h
                   THEN CHOOSE i \in 1..Len(tr) : tr[i] = h /\ \A j \in 1..(i-1) : tr[j] # h
                   ELSE 0

Passed(s, h) == Position(reqs[s].trace, h) > 0

RateLimitHeaderNames == {"X-RateLimit-Limit", "X-RateLimit-Remaining", "X-RateLimit-Reset", "Retry-After"}

DigitValue(c) == (CHOOSE i \in 1..10 : Digits[i] = c) - 1

\* the natural number a decimal string denotes
RECURSIVE ParseNat(_)
ParseNat(str) == IF Len(str) = 0 THEN 0
                 ELSE 10 * ParseNat(SubSeq(str, 1, Len(str) - 1)) + DigitValue(str[Len(str)])

IsDecimal(str) == Len(str) > 0 /\ \A i \in 1..Len(str) : \E d \in 1..10 : Digits[d] = str[i]

\* C1: the invoker is called for a request only after RateLimiter.Limit and
\* then the AuthInterceptor have run for that request, in this order.
C1_LimitThenAuthBeforeBackend ==
    \A s \in Slots :
        (reqs[s].invokerCalls > 0 \/ Passed(s, "invoker")) =>
            /\ Passed(s, "Limit")
            /\ Position(reqs[s].trace, "Limit") < Position(reqs[s].trace, "Unary")
            /\ Position(reqs[s].trace, "Unary") < Position(reqs[s].trace, "invoker")

C1_Witness ==
    \E s \in Slots : reqs[s].pc = "backend" /\ reqs[s].invokerCalls = 1 /\ Passed(s, "Limit")

\* C2: a request the store answers "not allowed" gets 429 from the limiter
\* with a Retry-After header, and the next handler, the interceptor and the
\* backend are never run for it.
C2_DenyIsTerminal ==
    \A s \in Slots :
        (reqs[s].res.Allowed = 0 /\ ~reqs[s].storeErr) =>
            /\ reqs[s].status = StatusTooManyRequests
            /\ reqs[s].statusBy = "Limit"
            /\ "Retry-After" \in DOMAIN reqs[s].header
            /\ reqs[s].nextCalls = 0
            /\ reqs[s].pc = "done"
            /\ ~Passed(s, "httpMux") /\ ~Passed(s, "Unary") /\ ~Passed(s, "invoker")
            /\ reqs[s].invokerCalls = 0

C2_Witness ==
    \E s \in Slots : cfg.Enabled /\ reqs[s].res.Allowed = 0 /\ reqs[s].storeCalls = 1

\* C3: when the store call fails the request is forwarded exactly once, with
\* no rate-limit header and no 429 of the limiter, after a single store call.
C3_FailOpen ==
    \A s \in Slots :
        reqs[s].storeErr =>
            /\ reqs[s].nextCalls = 1
            /\ reqs[s].storeCalls = 1
            /\ Passed(s, "Limit") /\ reqs[s].pc # "Limit"
            /\ (DOMAIN reqs[s].header) \cap RateLimitHeaderNames = {}
            /\ reqs[s].statusBy # "Limit"
            /\ reqs[s].status # StatusTooManyRequests

\* the store fails for a request whose key has no budget left
C3_Witness ==
    \E s \in Slots :
        /\ reqs[s].storeErr /\ reqs[s].pc = "httpMux"
        /\ Allow(store, now, reqs[s].key, getLimit(cfg, reqs[s].in).limit).res.Allowed = 0

\* C4: with the limiter disabled every request is forwarded, no key is
\* derived, the store is never called and holds no counter, and no
\* rate-limit header is set.
C4_DisabledBypass ==
    ~cfg.Enabled =>
        /\ store = EmptyMap
        /\ \A s \in Slots :
            /\ reqs[s].key = NoKey
            /\ reqs[s].storeCalls = 0
            /\ (DOMAIN reqs[s].header) \cap RateLimitHeaderNames = {}
            /\ Passed(s, "Limit") =>
                   (reqs[s].nextCalls = 1 /\ (Passed(s, "httpMux") \/ reqs[s].pc = "httpMux"))

C4_Witness ==
    /\ ~cfg.Enabled
    /\ \E s \in Slots : Passed(s, "Limit") /\ reqs[s].nextCalls = 1 /\ reqs[s].pc = "backend"

\* C6: the Retry-After header of a 429 of the limiter is a strictly
\* positive number of seconds.
C6_RetryAfterPositive ==
    \A s \in Slots :
        (reqs[s].statusBy = "Limit" /\ reqs[s].status = StatusTooManyRequests) =>
            /\ "Retry-After" \in DOMAIN reqs[s].header
            /\ IsDecimal(reqs[s].header["Retry-After"])
            /\ ParseNat(reqs[s].header["Retry-After"]) > 0

\* the tier the limiter is specified to pick for a request
TierRPS(r) == IF r.Authorization # << >> THEN cfg.AuthRPS ELSE cfg.PublicRPS

\* C9: every request the store answered for, allowed or denied, carries
\* X-RateLimit-Limit (the tier's limit), X-RateLimit-Remaining (the store's
\* remaining budget) and X-RateLimit-Reset (the store's reset delay in
\* milliseconds); Retry-After is present exactly on the denied ones.
C9_RateLimitHeaders ==
    \A s \in Slots :
        (reqs[s].storeCalls > 0 /\ ~reqs[s].storeErr) =>
            LET h == reqs[s].header
            IN  /\ {"X-RateLimit-Limit", "X-RateLimit-Remaining", "X-RateLimit-Reset"} \subseteq DOMAIN h
                /\ IsDecimal(h["X-RateLimit-Limit"]) /\ ParseNat(h["X-RateLimit-Limit"]) = TierRPS(reqs[s].in)
                /\ IsDecimal(h["X-RateLimit-Remaining"]) /\ ParseNat(h["X-RateLimit-Remaining"]) = reqs[s].res.Remaining
                /\ IsDecimal(h["X-RateLimit-Reset"]) /\ ParseNat(h["X-RateLimit-Reset"]) = reqs[s].res.ResetAfter
                /\ (("Retry-After" \in DOMAIN h) <=> (reqs[s].res.Allowed = 0))

C9_Witness ==
    \E s \in Slots :
        /\ reqs[s].res.Allowed = 1 /\ reqs[s].res.Remaining > 0 /\ reqs[s].res.ResetAfter = 500
        /\ "X-RateLimit-Reset" \in DOMAIN reqs[s].header

\* C10: a call of a method of the Endpoint Registry is handed to the invoker
\* with the context it came with (no x-merchant-id, no metadata changed), no
\* credential is checked, and the invoker's result is what is returned.
C10_ExemptForwardedUnmodified ==
    \A s \in Slots :
        (reqs[s].in.route \in publicEndpoints /\ Passed(s, "Unary")) =>
            /\ reqs[s].invokerCalls = 1
            /\ Passed(s, "invoker")
            /\ reqs[s].ctxOut = reqs[s].ctxIn
            /\ "x-merchant-id" \notin DOMAIN reqs[s].ctxOut.outgoing.md
            /\ ~reqs[s].validated
            /\ reqs[s].statusBy # "Unary"
            /\ reqs[s].pc = "done" =>
                   (reqs[s].rpcErr = reqs[s].backendErr /\ reqs[s].statusBy = "backend")

\* an exempt call carrying an expired token comes back with the backend's error
C10_Witness ==
    \E s \in Slots :
        /\ reqs[s].in.route \in publicEndpoints /\ reqs[s].pc = "done"
        /\ reqs[s].in.Authorization = BearerPrefix \o <<"X">>
        /\ reqs[s].invokerCalls = 1 /\ reqs[s].rpcErr.code = 5

(***************************************************************************)
(* Specification SpecKey: getLimit applied to one request drawn from a     *)
(* bounded set of header values.  Header values are as net/http delivers   *)
(* them, without leading or trailing white space.  The Authorization       *)
(* values are: none, a bare token, a valid, an expired and a soon expiring *)
(* bearer token, and a value that spells the tail of an address key; one   *)
(* X-Forwarded-For value spells the tail of a credential key.              *)
(***************************************************************************)
Strs(S, n) == UNION {[1..k -> S] : k \in 0..n}

KeyAuthorizations ==
    {<< >>, <<"V">>, BearerPrefix \o <<"V">>, BearerPrefix \o <<"X">>, BearerPrefix \o <<"T">>,
     <<"i","p",":","9">>}

KeyForwardedFors ==
    {x \in Strs({"7", ",", " "}, MaxLen) : x = TrimSpace(x)} \cup {<<"a","u","t","h",":","V">>}

KeyRealIPs == {<< >>, <<"8">>}

KeyRemoteAddrs == Strs({"9", ":"}, MaxLen)

KeyInputs ==
    [method : {"GET"}, route : {PrivateMethod}, Authorization : KeyAuthorizations,
     XForwardedFor : KeyForwardedFors, XRealIP : KeyRealIPs, RemoteAddr : KeyRemoteAddrs]

InitKey ==
    /\ cfg \in Configs
    /\ now = 0
    /\ ticks = 0
    /\ store = EmptyMap
    /\ publicEndpoints = DiscoverPublicEndpoints
    /\ reqs = [s \in Slots |-> Idle]
    /\ served = 0
    /\ kin \in KeyInputs
    /\ kout = NoOutput
    /\ rlog = << >>
    /\ auth = NoCall
    /\ jwt = NoValidation
    /\ registry = NoRegistry
    /\ marshal = NoMarshal
    /\ handlers = NoHandlers

GetLimitCall ==
    /\ ~kout.done
    /\ kout' = [done |-> TRUE, key |-> getLimit(cfg, kin).key, limit |-> getLimit(cfg, kin).limit]
    /\ UNCHANGED <<cfg, now, ticks, store, publicEndpoints, reqs, served, kin, rlog, unitVars>>

NextKey == GetLimitCall

SpecKey == InitKey /\ [][NextKey]_vars

\* ip is the first comma-separated value of x without its surrounding spaces
IsTrimmedFirstValue(x, ip) ==
    \E n \in 0..Len(x) :
        /\ n = Len(x) \/ x[n + 1] = ","
        /\ \A i \in 1..n : x[i] # ","
        /\ \E a \in 0..n : \E b \in 0..(n - a) :
             /\ \A i \in 1..a : x[i] = " "
             /\ \A i \in (n - b + 1)..n : x[i] = " "
             /\ ip = SubSeq(x, a + 1, n - b)
             /\ ip # << >> => (ip[1] # " " /\ ip[Len(ip)] # " ")

\* ip is addr without the port that follows its rightmost colon
IsPeerWithoutPort(addr, ip) ==
    \/ (\A i \in 1..Len(addr) : addr[i] # ":") /\ ip = addr
    \/ \E i \in 1..Len(addr) :
         /\ addr[i] = ":"
         /\ \A j \in (i + 1)..Len(addr) : addr[j] # ":"
         /\ ip = SubSeq(addr, 1, i - 1)

\* the resolution order forwarded-for, real-IP, peer address
ResolvedAddress(r, ip) ==
    \/ r.XForwardedFor # << >> /\ IsTrimmedFirstValue(r.XForwardedFor, ip)
    \/ r.XForwardedFor = << >> /\ r.XRealIP # << >> /\ ip = r.XRealIP
    \/ r.XForwardedFor = << >> /\ r.XRealIP = << >> /\ IsPeerWithoutPort(r.RemoteAddr, ip)

KeyHasForm(key, r, authLiteral, ipLiteral) ==
    IF r.Authorization # << >>
    THEN key = authLiteral \o r.Authorization
    ELSE /\ HasPrefix(key, ipLiteral)
         /\ ResolvedAddress(r, SubSeq(key, Len(ipLiteral) + 1, Len(key)))

TierIs(limit, r) ==
    /\ limit.Period = 1000
    /\ IF r.Authorization # << >>
       THEN limit.Rate = cfg.AuthRPS /\ limit.Burst = cfg.AuthBurst
       ELSE limit.Rate = cfg.PublicRPS /\ limit.Burst = cfg.PublicBurst

\* C7 as stated: the key is "rate:auth:" + credential with the authenticated
\* tier, or "rate:ip:" + resolved address with the anonymous tier, and the
\* window is one second.
C7_KeyAsStated ==
    kout.done =>
        /\ KeyHasForm(kout.key, kin, <<"r","a","t","e",":","a","u","t","h",":">>,
                      <<"r","a","t","e",":","i","p",":">>)
        /\ TierIs(kout.limit, kin)

\* C7 amended: the key is "rate_limit:auth:" + the raw value of a non-empty
\* Authorization header (of any scheme) with the authenticated tier, or
\* "rate_limit:ip:" + resolved address with the anonymous tier, and the
\* window is one second.
C7_KeyDerivation ==
    kout.done =>
        /\ KeyHasForm(kout.key, kin, <<"r","a","t","e","_","l","i","m","i","t",":","a","u","t","h",":">>,
                      <<"r","a","t","e","_","l","i","m","i","t",":","i","p",":">>)
        /\ TierIs(kout.limit, kin)

C7_Witness ==
    /\ kout.done /\ kin.Authorization = <<"V">> /\ kin.XForwardedFor # << >>
    /\ kout.limit.Rate = 2 /\ cfg.PublicRPS = 1

\* C8: without a credential header the address in the key is the trimmed
\* first value of X-Forwarded-For when that header has a value, else
\* X-Real-IP when it has one, else the peer address cut at its rightmost
\* colon.
C8_AddressResolution ==
    (kout.done /\ kin.Authorization = << >>) =>
        /\ HasPrefix(kout.key, RateIPPrefix)
        /\ ResolvedAddress(kin, SubSeq(kout.key, Len(RateIPPrefix) + 1, Len(kout.key)))

\* the peer address has two colons and is the only source
C8_Witness ==
    /\ kout.done /\ kin.Authorization = << >> /\ kin.XForwardedFor = << >> /\ kin.XRealIP = << >>
    /\ kin.RemoteAddr = <<":", ":", "9">>
    /\ kout.key = RateIPPrefix \o <<":">>

\* the requests that differ from r in one address source only
AddressVariants(r) ==
    {[r EXCEPT !.XForwardedFor = x] : x \in KeyForwardedFors}
    \cup {[r EXCEPT !.XRealIP = x] : x \in KeyRealIPs}
    \cup {[r EXCEPT !.RemoteAddr = x] : x \in KeyRemoteAddrs}

\* C24: a request with a non-empty Authorization header, whatever its value
\* (valid, expired or not a bearer credential), gets the authenticated tier
\* and the key made of the credential alone, the same for every forwarded-for,
\* real-IP and peer address; an address key and the anonymous tier are used
\* only for a request without a credential header.
C24_CredentialPresentTier ==
    kout.done =>
        /\ kin.Authorization # << >> =>
               /\ kout.key = RateAuthPrefix \o kin.Authorization
               /\ kout.limit = [Rate |-> cfg.AuthRPS, Burst |-> cfg.AuthBurst, Period |-> Second]
               /\ \A r2 \in AddressVariants(kin) :
                      getLimit(cfg, r2) = [key |-> kout.key, limit |-> kout.limit]
        /\ HasPrefix(kout.key, RateIPPrefix) => kin.Authorization = << >>
        /\ kin.Authorization = << >> =>
               /\ HasPrefix(kout.key, RateIPPrefix)
               /\ kout.limit = [Rate |-> cfg.PublicRPS, Burst |-> cfg.PublicBurst, Period |-> Second]

\* an expired bearer credential and a value that is no bearer credential,
\* each with address headers set, get the authenticated tier
C24_Witness ==
    /\ kout.done /\ kin.Authorization \in {BearerPrefix \o <<"X">>, <<"V">>}
    /\ kin.XRealIP = <<"8">> /\ kin.XForwardedFor = <<"7">>
    /\ cfg.PublicRPS = 1 /\ kout.limit.Rate = 2 /\ kout.limit.Burst = 2
    /\ getLimit(cfg, [kin EXCEPT !.Authorization = <<"V">>]).limit.Burst = 2

\* the keys getLimit gives to the requests without a credential header
AnonymousKeys ==
    {getLimit(c, r).key : c \in Configs, r \in {q \in KeyInputs : q.Authorization = << >>}}

\* the keys getLimit gives to the requests with a credential header
AuthenticatedKeys ==
    {getLimit(c, r).key : c \in Configs, r \in {q \in KeyInputs : q.Authorization # << >>}}

\* C25: the key of a request of one tier differs from the key of every
\* request of the other tier.
C25_TiersNeverCollide ==
    kout.done =>
        /\ kin.Authorization # << >> => kout.key \notin AnonymousKeys
        /\ kin.Authorization = << >> => kout.key \notin AuthenticatedKeys

\* a credential that spells the tail of an address key, while address keys of
\* the empty address, of that address and of an address that spells the tail
\* of a credential key exist
C25_Witness ==
    /\ kout.done /\ kin.Authorization = <<"i","p",":","9">>
    /\ kout.key = RateAuthPrefix \o <<"i","p",":","9">>
    /\ RateIPPrefix \in AnonymousKeys
    /\ RateIPPrefix \o <<"9">> \in AnonymousKeys
    /\ RateIPPrefix \o <<"a","u","t","h",":","V">> \in AnonymousKeys
    /\ RateAuthPrefix \o <<"V">> \in AuthenticatedKeys

\* the token of a bearer credential that validates at time t, else << >>
ValidBearer(a, t) ==
    IF HasPrefix(a, BearerPrefix)
          /\ ExtractMerchantID(SubSeq(a, Len(BearerPrefix) + 1, Len(a)), t, t).err = ErrNil
    THEN SubSeq(a, Len(BearerPrefix) + 1, Len(a))
    ELSE << >>

\* two requests of one principal: without credential from the same peer
\* address, or with valid credentials of the same merchant
SamePrincipal(r1, r2) ==
    \/ r1.Authorization = << >> /\ r2.Authorization = << >> /\ r1.RemoteAddr = r2.RemoteAddr
    \/ /\ ValidBearer(r1.Authorization, 0) # << >> /\ ValidBearer(r2.Authorization, 0) # << >>
       /\ ExtractMerchantID(ValidBearer(r1.Authorization, 0), 0, 0).merchantID
              = ExtractMerchantID(ValidBearer(r2.Authorization, 0), 0, 0).merchantID

\* the requests that differ from r in the forwarded-for header or in the
\* Authorization header only
HeaderVariants(r) ==
    {[r EXCEPT !.XForwardedFor = x] : x \in KeyForwardedFors}
    \cup {[r EXCEPT !.Authorization = x] : x \in KeyAuthorizations}

\* C26: two requests of the same principal get the same key, whatever
\* forwarded-for header or Authorization value each of them carries.
C26_SamePrincipalSameKey ==
    kout.done =>
        \A r2 \in HeaderVariants(kin) :
            SamePrincipal(kin, r2) => getLimit(cfg, r2).key = kout.key

(***************************************************************************)
(* Specification SpecRate: requests of two callers run through             *)
(* RateLimiter.Limit one after the other while the clock advances; rlog    *)
(* keeps what the limiter did with each.                                   *)
(***************************************************************************)
MaxRateTicks == 3

RateRequests ==
    {[method |-> "GET", route |-> PrivateMethod, Authorization |-> a, XForwardedFor |-> << >>,
      XRealIP |-> << >>, RemoteAddr |-> <<"9", ":", "1">>] : a \in {<< >>, BearerPrefix \o <<"V">>}}

\* enabled configurations whose burst is at least the rate, as the defaults are
RateConfigs ==
    {c \in Configs : c.Enabled /\ c.PublicBurst >= c.PublicRPS /\ c.AuthBurst >= c.AuthRPS}
    \cup {[Enabled |-> TRUE, PublicRPS |-> 1, PublicBurst |-> 2, AuthRPS |-> 2, AuthBurst |-> 3]}

InitRate ==
    /\ cfg \in RateConfigs
    /\ now = 0
    /\ ticks = 0
    /\ store = EmptyMap
    /\ publicEndpoints = DiscoverPublicEndpoints
    /\ reqs = [s \in Slots |-> Idle]
    /\ served = 0
    /\ kin = NoRequest
    /\ kout = NoOutput
    /\ rlog = << >>
    /\ auth = NoCall
    /\ jwt = NoValidation
    /\ registry = NoRegistry
    /\ marshal = NoMarshal
    /\ handlers = NoHandlers

RateRequest ==
    /\ Len(rlog) < MaxLog
    /\ \E r \in RateRequests :
         LET l == Limit(cfg, r, store, now, FALSE)
         IN  /\ rlog' = Append(rlog, [t |-> now, in |-> r, key |-> l.key, next |-> l.next,
                                      status |-> l.status, header |-> l.header, res |-> l.res])
             /\ store' = l.store
    /\ UNCHANGED <<cfg, now, ticks, publicEndpoints, reqs, served, kin, kout, unitVars>>

RateTick ==
    /\ ticks < MaxRateTicks
    /\ \E d \in ClockSteps : now' = now + d
    /\ ticks' = ticks + 1
    /\ UNCHANGED <<cfg, store, publicEndpoints, reqs, served, kin, kout, rlog, unitVars>>

NextRate == RateRequest \/ RateTick

SpecRate == InitRate /\ [][NextRate]_vars

\* the requests of rlog made with the credential (or lack of one) of r
SameCaller(r) == SelectSeq(rlog, LAMBDA e : e.in.Authorization = r.Authorization)

TierBurst(r) == IF r.Authorization # << >> THEN cfg.AuthBurst ELSE cfg.PublicBurst

\* C5 as stated: requests of one key within one 1-second window that are no
\* more than the tier's requests per second are all allowed, and the first
\* request beyond the tier's burst within the window is denied.
C5_WindowAsStated ==
    \A r \in RateRequests :
        LET es == SameCaller(r)
            B == TierBurst(r)
        IN  /\ (Len(es) > 0 /\ Len(es) <= TierRPS(r) /\ es[Len(es)].t - es[1].t < 1000) =>
                   \A i \in 1..Len(es) : es[i].next = 1
            /\ (Len(es) > B /\ es[B + 1].t - es[1].t < 1000) => es[B + 1].next = 0

\* C5 amended: from an unused key the first burst requests are all allowed
\* whatever their timing, and the next request is denied exactly when less
\* than 1s / requestsPerSecond has passed since the first one (the budget
\* refills continuously, it is not counted per 1-second window).
C5_BurstThenRefill ==
    \A r \in RateRequests :
        LET es == SameCaller(r)
            B == TierBurst(r)
        IN  /\ \A i \in 1..Len(es) : i <= B => es[i].next = 1 /\ es[i].status = 0
            /\ Len(es) > B =>
                 ((es[B + 1].next = 0 /\ es[B + 1].status = StatusTooManyRequests)
                     <=> ((es[B + 1].t - es[1].t) * TierRPS(r) < 1000))

\* the request after the burst is allowed within the second of the first
C5_Witness ==
    \E r \in RateRequests :
        LET es == SameCaller(r)
            B == TierBurst(r)
        IN  Len(es) > B /\ es[B + 1].next = 1 /\ es[B + 1].t - es[1].t < 1000 /\ B > 1

(***************************************************************************)
(* Specification SpecLimit: RateLimiter.Limit run by concurrent handler    *)
(* goroutines, one request each.  A handler derives key and tier, sends    *)
(* the limiter script to the Counter Store, which runs it atomically at    *)
(* some later moment, and acts on the answer or on the error of the call.  *)
(* The request context may become done (the client went away, a deadline   *)
(* passed) while the store call is in flight; the call then ends with the  *)
(* context's error or, when the answer was already there, with the answer. *)
(***************************************************************************)
MaxLimitTicks == 1

\* the store runs the script of rl.limiter.Allow for handler h
StoreScript(st, t, h) == Allow(st, t, h.key, h.limit)

LimitConfigs == RateConfigs \cup {c \in Configs : c.PublicBurst < c.PublicRPS}

InitLimit ==
    /\ cfg \in LimitConfigs
    /\ now = 0
    /\ ticks = 0
    /\ store = EmptyMap
    /\ publicEndpoints = DiscoverPublicEndpoints
    /\ reqs = [s \in Slots |-> Idle]
    /\ served = 0
    /\ kin = NoRequest
    /\ kout = NoOutput
    /\ rlog = << >>
    /\ auth = NoCall
    /\ jwt = NoValidation
    /\ registry = NoRegistry
    /\ marshal = NoMarshal
    /\ handlers = NoHandlers

\* lines 32-38: the enable flag, r.Context(), getLimit; the call of line 40
\* is sent
LimitEnter(h) ==
    /\ handlers[h].pc = "idle"
    /\ \E r \in RateRequests :
         handlers' = [handlers EXCEPT ![h] =
             IF ~cfg.Enabled
             THEN [@ EXCEPT !.pc = "done", !.in = r, !.next = Bypass(cfg, r, store).next]
             ELSE [@ EXCEPT !.pc = "Allow", !.in = r, !.key = getLimit(cfg, r).key,
                            !.limit = getLimit(cfg, r).limit]]
    /\ UNCHANGED <<pipeVars, auth, jwt, registry, marshal>>

\* the Counter Store runs the script of the call, in one step
StoreRun(h) ==
    /\ handlers[h].pc = "Allow"
    /\ LET a == StoreScript(store, now, handlers[h])
       IN  /\ store' = a.store
           /\ handlers' = [handlers EXCEPT ![h] = [@ EXCEPT !.pc = "reply", !.res = a.res, !.at = now]]
    /\ UNCHANGED <<cfg, now, ticks, publicEndpoints, reqs, served, kin, kout, rlog,
                   auth, jwt, registry, marshal>>

\* the request context becomes done while the store call is in flight
CtxDone(h) ==
    /\ handlers[h].pc \in {"Allow", "reply"}
    /\ ~handlers[h].ctxDone
    /\ handlers' = [handlers EXCEPT ![h].ctxDone = TRUE]
    /\ UNCHANGED <<pipeVars, auth, jwt, registry, marshal>>

\* the call of line 40 returns an error: that of the done context, before or
\* after the store ran the script
StoreError(h) ==
    /\ handlers[h].pc \in {"Allow", "reply"}
    /\ handlers[h].ctxDone
    /\ handlers' = [handlers EXCEPT ![h] = [@ EXCEPT !.pc = "err", !.storeErr = TRUE, !.res = NoResult]]
    /\ UNCHANGED <<pipeVars, auth, jwt, registry, marshal>>

\* lines 41-58: the handler acts on what the call returned
LimitReturn(h) ==
    /\ handlers[h].pc \in {"reply", "err"}
    /\ LET hd == handlers[h]
           a == [res |-> hd.res, store |-> store]
           l == IF hd.pc = "err" THEN FailOpen(hd.key, store)
                ELSE IF hd.res.Allowed = 0
                THEN TooManyRequests(RateLimitHeaders(hd.limit, hd.res), hd.key, a)
                ELSE Forward(RateLimitHeaders(hd.limit, hd.res), hd.key, a)
       IN  handlers' = [handlers EXCEPT ![h] =
               [@ EXCEPT !.pc = "done", !.next = l.next, !.status = l.status, !.header = l.header,
                         !.nextCtxDone = (l.next > 0 /\ hd.ctxDone)]]
    /\ UNCHANGED <<pipeVars, auth, jwt, registry, marshal>>

LimitTick ==
    /\ ticks < MaxLimitTicks
    /\ \E d \in ClockSteps : now' = now + d
    /\ ticks' = ticks + 1
    /\ UNCHANGED <<cfg, store, publicEndpoints, reqs, served, kin, kout, rlog, unitVars>>

NextLimit ==
    \/ \E h \in Handlers : LimitEnter(h)
    \/ \E h \in Handlers : StoreRun(h)
    \/ \E h \in Handlers : CtxDone(h)
    \/ \E h \in Handlers : StoreError(h)
    \/ \E h \in Handlers : LimitReturn(h)
    \/ LimitTick

SpecLimit == InitLimit /\ [][NextLimit]_vars

\* the handlers that got an answer of the store for key k
Answered(k) == {h \in Handlers : handlers[h].pc = "done" /\ handlers[h].key = k /\ handlers[h].at >= 0
                                  /\ ~handlers[h].storeErr}

\* no store call made for key k ended in an error
NoStoreError(k) == \A h \in Handlers : handlers[h].key = k => ~handlers[h].storeErr

\* of the handlers in H at most the tier's burst were forwarded, and the
\* allowed ones were told pairwise distinct Remaining values
WithinBudget(H) ==
    /\ \A h \in H : Cardinality({g \in H : handlers[g].next > 0}) <= handlers[h].limit.Burst
    /\ \A g, h \in H :
           (g # h /\ handlers[g].next > 0 /\ handlers[h].next > 0)
               => handlers[g].res.Remaining # handlers[h].res.Remaining

\* C27 as stated: of the requests with one key that the store answered
\* within one window (less than a second apart), at most the tier's burst are
\* forwarded and the allowed ones see pairwise distinct Remaining values.
C27_WindowBudget ==
    \A k \in {handlers[h].key : h \in Handlers} \ {NoKey} :
        NoStoreError(k) =>
            \A H \in SUBSET Answered(k) :
                (\A g, h \in H : handlers[g].at - handlers[h].at < Second) => WithinBudget(H)

\* C27 amended: of the requests with one key that the store answered at the
\* same instant, in whatever order the handlers ran, at most the tier's burst
\* are forwarded and the allowed ones see pairwise distinct Remaining values.
C27_AtomicBudget ==
    \A k \in {handlers[h].key : h \in Handlers} \ {NoKey} :
        NoStoreError(k) =>
            \A H \in SUBSET Answered(k) :
                (\A g, h \in H : handlers[g].at = handlers[h].at) => WithinBudget(H)

\* both handlers had a request without credential from the same peer at the
\* same instant and the burst is one: one request was forwarded, the other
\* was denied
C27_Witness ==
    /\ \A h \in Handlers : handlers[h].pc = "done" /\ handlers[h].at = 0
                            /\ handlers[h].in.Authorization = << >> /\ ~handlers[h].storeErr
    /\ cfg.PublicBurst = 1
    /\ Cardinality({h \in Handlers : handlers[h].next > 0}) = 1
    /\ \E h \in Handlers : handlers[h].status = StatusTooManyRequests /\ handlers[h].next = 0

\* C28: a handler whose request context became done while its store call was
\* in flight does not call the next handler afterwards.
C28_NoForwardAfterDone ==
    \A h \in Handlers : (handlers[h].pc = "done" /\ handlers[h].ctxDone) => handlers[h].next = 0

(***************************************************************************)
(* Specification SpecAuth: one call through AuthInterceptor.Unary with a   *)
(* context drawn from a bounded set of incoming and outgoing metadata,     *)
(* made at some time of the clock.                                         *)
(***************************************************************************)
MaxAuthTicks == 3

\* token strings: valid, expired, expiring at 750, without exp, without
\* merchant_id, with a bad signature, with the methods none, RS256 and an
\* unregistered one, and one that does not parse
TokenStrings == {<<"V">>, <<"X">>, <<"T">>, <<"E">>, <<"M">>, <<"S">>, <<"N">>, <<"R">>, <<"U">>, <<"?">>}

AuthorizationValues ==
    {BearerPrefix \o tk : tk \in TokenStrings}
    \cup {<<"V">>, << >>, BearerPrefix, <<"B","e","a","r","e","r","V">>,
          <<"b","e","a","r","e","r"," ","V">>}

IncomingMDs ==
    {NoMD, [ok |-> TRUE, md |-> EmptyMap],
     [ok |-> TRUE, md |-> MapSet(EmptyMap, "x-request-id", << <<"1">> >>)],
     [ok |-> TRUE, md |-> MapSet(EmptyMap, "authorization", <<BearerPrefix \o <<"V">> >>)],
     [ok |-> TRUE, md |-> MapSet(EmptyMap, "authorization", <<BearerPrefix \o <<"X">> >>)]}

OutgoingMDs ==
    {NoMD, [ok |-> TRUE, md |-> EmptyMap],
     [ok |-> TRUE, md |-> MapSet(EmptyMap, "x-request-id", << <<"1">> >>)],
     [ok |-> TRUE, md |-> MapSet(EmptyMap, "authorization", << >>)],
     [ok |-> TRUE, md |-> MapSet(EmptyMap, "authorization", <<BearerPrefix \o <<"X">>, BearerPrefix \o <<"V">> >>)],
     [ok |-> TRUE, md |-> MapSet(MapSet(EmptyMap, "authorization", <<BearerPrefix \o <<"V">> >>),
                                 "x-request-id", << <<"1">>, <<"2">> >>)],
     [ok |-> TRUE, md |-> MapSet(MapSet(EmptyMap, "authorization", <<BearerPrefix \o <<"V">> >>),
                                 "x-merchant-id", << <<"e">> >>)]}
    \cup {[ok |-> TRUE, md |-> MapSet(EmptyMap, "authorization", <<v>>)] : v \in AuthorizationValues}
    \cup {[ok |-> TRUE, md |-> MapSet(EmptyMap, "grpcgateway-authorization", <<v>>)] :
             v \in {BearerPrefix \o <<"V">>, BearerPrefix \o <<"X">>, <<"V">>}}

AuthCalls ==
    {[NoCall EXCEPT !.ctx = [incoming |-> i, outgoing |-> o], !.method = m] :
        i \in IncomingMDs, o \in OutgoingMDs, m \in {PublicMethod, PrivateMethod}}

InitAuth ==
    /\ cfg \in {c \in Configs : c.Enabled /\ c.PublicRPS = 1}
    /\ now = 0
    /\ ticks = 0
    /\ store = EmptyMap
    /\ publicEndpoints = DiscoverPublicEndpoints
    /\ reqs = [s \in Slots |-> Idle]
    /\ served = 0
    /\ kin = NoRequest
    /\ kout = NoOutput
    /\ rlog = << >>
    /\ auth \in AuthCalls
    /\ jwt = NoValidation
    /\ registry = NoRegistry
    /\ marshal = NoMarshal
    /\ handlers = NoHandlers

\* the gRPC client makes the call through the interceptor
UnaryCall ==
    /\ ~auth.done
    /\ \E skew \in ClockSkews :
         LET u == Unary(publicEndpoints, auth.ctx, auth.method, now, now + skew)
         IN  auth' = [auth EXCEPT !.done = TRUE, !.t = now, !.t2 = now + skew, !.out = u,
                                  !.invokerCalls = IF u.invoked THEN @ + 1 ELSE @]
    /\ UNCHANGED <<pipeVars, jwt, registry, marshal, handlers>>

AuthTick ==
    /\ ticks < MaxAuthTicks
    /\ \E d \in ClockSteps : now' = now + d
    /\ ticks' = ticks + 1
    /\ UNCHANGED <<cfg, store, publicEndpoints, reqs, served, kin, kout, rlog, unitVars>>

NextAuth == UnaryCall \/ AuthTick

SpecAuth == InitAuth /\ [][NextAuth]_vars

(***************************************************************************)
(* Properties of the interceptor (specification SpecAuth).                 *)
(***************************************************************************)
NonExemptCall == auth.done /\ auth.method \notin publicEndpoints

RejectionMessages == {"missing authorization header", "invalid authorization header format",
                      "invalid token", "token has expired"}

\* C11: a non-exempt call is either forwarded without error or rejected; a
\* rejection (missing credential, malformed prefix, invalid or expired token)
\* never calls the invoker, leaves the context alone and carries the code
\* Unauthenticated with one of the four messages.
C11_RejectionsTerminal ==
    NonExemptCall =>
        IF auth.out.invoked
        THEN auth.invokerCalls = 1 /\ auth.out.err = NilError
        ELSE /\ auth.invokerCalls = 0
             /\ auth.out.ctx = auth.ctx
             /\ auth.out.err.code = CodeUnauthenticated
             /\ auth.out.err.code \notin {2, 13}
             /\ auth.out.err.msg \in RejectionMessages

\* a token that expires between the two readings of the clock
C11_Witness ==
    /\ NonExemptCall /\ ~auth.out.invoked /\ auth.invokerCalls = 0
    /\ auth.out.err = [code |-> CodeUnauthenticated, msg |-> "token has expired"]

\* no value under "authorization" or "grpcgateway-authorization" in md
NoAuthorizationValue(md) ==
    \A k \in {"authorization", "grpcgateway-authorization"} : k \notin DOMAIN md.md \/ md.md[k] = << >>

\* C12 as stated: a non-exempt call without authorization value in incoming
\* and outgoing metadata is rejected as Unauthenticated with the message
\* "missing authorization".
C12_MissingAsStated ==
    (NonExemptCall /\ NoAuthorizationValue(auth.ctx.incoming) /\ NoAuthorizationValue(auth.ctx.outgoing)) =>
        /\ auth.invokerCalls = 0
        /\ auth.out.err = [code |-> CodeUnauthenticated, msg |-> "missing authorization"]

\* C12 amended: a non-exempt call without authorization value in incoming
\* and outgoing metadata is rejected as Unauthenticated with the message
\* "missing authorization header", without validation and without forwarding.
C12_MissingAuthorization ==
    (NonExemptCall /\ NoAuthorizationValue(auth.ctx.incoming) /\ NoAuthorizationValue(auth.ctx.outgoing)) =>
        /\ auth.invokerCalls = 0
        /\ ~auth.out.validated
        /\ auth.out.err = [code |-> CodeUnauthenticated, msg |-> "missing authorization header"]

\* the metadata holds other keys only
C12_Witness ==
    /\ NonExemptCall /\ auth.out.err.msg = "missing authorization header"
    /\ "x-request-id" \in DOMAIN auth.ctx.incoming.md
    /\ "x-request-id" \in DOMAIN auth.ctx.outgoing.md

\* the authorization value the interceptor reads for the call
AuthHeader == AuthHeaders(Metadata(auth.ctx).md)

\* C13: a non-exempt call whose authorization value is present and does not
\* start with "Bearer " is rejected as Unauthenticated with "invalid
\* authorization header format", the validator is not called and the call is
\* not forwarded; a call without value is rejected as missing, not as
\* malformed, and only well-prefixed values reach the validator.
C13_FormatCheck ==
    NonExemptCall =>
        /\ (Len(AuthHeader) > 0 /\ ~HasPrefix(AuthHeader[1], <<"B","e","a","r","e","r"," ">>)) =>
               /\ auth.out.err = [code |-> CodeUnauthenticated, msg |-> "invalid authorization header format"]
               /\ ~auth.out.validated
               /\ auth.invokerCalls = 0
        /\ Len(AuthHeader) = 0 => auth.out.err.msg # "invalid authorization header format"
        /\ auth.out.validated =>
               (Len(AuthHeader) > 0 /\ HasPrefix(AuthHeader[1], <<"B","e","a","r","e","r"," ">>))

\* the value is "Bearer" followed by a token without the space
C13_Witness ==
    /\ NonExemptCall /\ Len(AuthHeader) > 0 /\ AuthHeader[1] = <<"B","e","a","r","e","r","V">>
    /\ auth.out.err.msg = "invalid authorization header format"

\* the token of a well-formed credential of the call
BearerToken == ParseToken(SubSeq(AuthHeader[1], 8, Len(AuthHeader[1])))

WellFormedBearer == NonExemptCall /\ Len(AuthHeader) > 0 /\ HasPrefix(AuthHeader[1], <<"B","e","a","r","e","r"," ">>)

SignatureValid(tok) == tok.wellFormed /\ tok.alg \in {"HS256", "HS384", "HS512"} /\ tok.sigOK

\* C14: with a well-formed credential, a token with a valid signature and an
\* expiry before the time of the call is rejected with "token has expired",
\* every other validation failure with "invalid token".
C14_ExpiredDistinguished ==
    (WellFormedBearer /\ ~auth.out.invoked) =>
        IF SignatureValid(BearerToken) /\ BearerToken.exp # NoExp /\ BearerToken.exp < auth.t
        THEN auth.out.err.msg = "token has expired"
        ELSE IF SignatureValid(BearerToken) /\ BearerToken.exp # NoExp /\ BearerToken.exp < auth.t2
        THEN auth.out.err.msg \in {"token has expired", "invalid token"}
        ELSE auth.out.err.msg = "invalid token"

\* C15: a non-exempt call whose token validates is forwarded exactly once;
\* the outgoing metadata handed to the invoker has the token's merchant_id as
\* the last value of x-merchant-id and, for every key of the outgoing
\* metadata the call came with, that key's values in their order, and the
\* incoming metadata is unchanged.
C15_MerchantMerged ==
    (WellFormedBearer /\ auth.out.validated /\ auth.out.err = NilError) =>
        LET before == auth.ctx.outgoing
            after == auth.out.ctx.outgoing
        IN  /\ auth.out.invoked /\ auth.invokerCalls = 1
            /\ after.ok
            /\ "x-merchant-id" \in DOMAIN after.md
            /\ after.md["x-merchant-id"][Len(after.md["x-merchant-id"])] = BearerToken.MerchantID
            /\ before.ok =>
                 \A k \in DOMAIN before.md :
                     /\ k \in DOMAIN after.md
                     /\ Len(after.md[k]) >= Len(before.md[k])
                     /\ SubSeq(after.md[k], 1, Len(before.md[k])) = before.md[k]
                     /\ k # "x-merchant-id" => after.md[k] = before.md[k]
            /\ DOMAIN after.md = (IF before.ok THEN DOMAIN before.md ELSE {}) \cup {"x-merchant-id"}
            /\ auth.out.ctx.incoming = auth.ctx.incoming

\* the call came with an authorization and a two-valued x-request-id
C15_Witness ==
    /\ WellFormedBearer /\ auth.out.invoked /\ auth.out.validated
    /\ "x-request-id" \in DOMAIN auth.ctx.outgoing.md
    /\ Len(auth.out.ctx.outgoing.md["x-request-id"]) = 2
    /\ auth.out.ctx.outgoing.md["x-merchant-id"] = << <<"m">> >>

\* md holds, as the value the interceptor would read, "Bearer " followed by a
\* token that validates at the times of the call
HoldsValidBearer(md) ==
    /\ md.ok
    /\ Len(AuthHeaders(md.md)) > 0
    /\ HasPrefix(AuthHeaders(md.md)[1], BearerPrefix)
    /\ ExtractMerchantID(SubSeq(AuthHeaders(md.md)[1], Len(BearerPrefix) + 1, Len(AuthHeaders(md.md)[1])),
                         auth.t, auth.t2).err = ErrNil

\* C29: a non-exempt call whose incoming metadata has no authorization value
\* (it is missing, empty or holds other keys only) and whose outgoing metadata
\* holds a valid "Bearer <token>" is authenticated and forwarded.
C29_FallbackToOutgoing ==
    (NonExemptCall /\ NoAuthorizationValue(auth.ctx.incoming) /\ HoldsValidBearer(auth.ctx.outgoing)) =>
        /\ auth.out.invoked
        /\ auth.out.err = NilError

\* C33: in the outgoing metadata handed to the invoker of a non-exempt call
\* every value of x-merchant-id is the merchant_id of the validated token.
C33_OnlyValidatedMerchant ==
    (WellFormedBearer /\ auth.out.invoked) =>
        /\ "x-merchant-id" \in DOMAIN auth.out.ctx.outgoing.md
        /\ \A i \in 1..Len(auth.out.ctx.outgoing.md["x-merchant-id"]) :
               auth.out.ctx.outgoing.md["x-merchant-id"][i] = BearerToken.MerchantID

\* C35: the x-merchant-id attached to a forwarded non-exempt call is not
\* empty; a token without merchant_id is rejected, not forwarded.
C35_MerchantNeverEmpty ==
    (WellFormedBearer /\ auth.out.invoked) =>
        /\ BearerToken.MerchantID # << >>
        /\ "x-merchant-id" \in DOMAIN auth.out.ctx.outgoing.md
        /\ auth.out.ctx.outgoing.md["x-merchant-id"]
             [Len(auth.out.ctx.outgoing.md["x-merchant-id"])] # << >>

(***************************************************************************)
(* Specification SpecJWT: JWTHelper.ValidateToken applied to one token     *)
(* string at some time of the clock.                                       *)
(***************************************************************************)
InitJWT ==
    /\ cfg \in {c \in Configs : c.Enabled /\ c.PublicRPS = 1}
    /\ now = 0
    /\ ticks = 0
    /\ store = EmptyMap
    /\ publicEndpoints = DiscoverPublicEndpoints
    /\ reqs = [s \in Slots |-> Idle]
    /\ served = 0
    /\ kin = NoRequest
    /\ kout = NoOutput
    /\ rlog = << >>
    /\ auth = NoCall
    /\ jwt \in {[NoValidation EXCEPT !.tokenString = tk] : tk \in TokenStrings}
    /\ registry = NoRegistry
    /\ marshal = NoMarshal
    /\ handlers = NoHandlers

ValidateTokenCall ==
    /\ ~jwt.done
    /\ \E skew \in ClockSkews :
         jwt' = [jwt EXCEPT !.done = TRUE, !.t = now, !.t2 = now + skew,
                            !.out = ValidateToken(jwt.tokenString, now, now + skew)]
    /\ UNCHANGED <<pipeVars, auth, registry, marshal, handlers>>

NextJWT == ValidateTokenCall \/ AuthTick

SpecJWT == InitJWT /\ [][NextJWT]_vars

\* errors.Is(err, target) for a sentinel error target
ErrorsIs(err, target) == target.id \in err.is

\* C16: a token with a valid signature whose expiry is before the time of
\* the call is rejected with the error ErrExpiredToken.
C16_ExpiredIsErrExpiredToken ==
    (jwt.done /\ SignatureValid(ParseToken(jwt.tokenString))
       /\ ParseToken(jwt.tokenString).exp # NoExp /\ ParseToken(jwt.tokenString).exp < jwt.t) =>
        /\ jwt.out.claims = NoClaims
        /\ ErrorsIs(jwt.out.err, ErrExpiredToken)
        /\ ~ErrorsIs(jwt.out.err, ErrInvalidToken)

\* C17: a token whose signing method is not an HMAC method is rejected with
\* the error ErrInvalidToken and no claims, whatever its claims are.
C17_NonHMACIsErrInvalidToken ==
    (jwt.done /\ ParseToken(jwt.tokenString).wellFormed
       /\ ParseToken(jwt.tokenString).alg \notin {"HS256", "HS384", "HS512"}) =>
        /\ jwt.out.claims = NoClaims
        /\ ErrorsIs(jwt.out.err, ErrInvalidToken)

\* C18: ValidateToken returns claims without error, or no claims with an
\* error that is ErrInvalidToken or ErrExpiredToken; a token that does not
\* parse or whose signature does not verify fails with ErrInvalidToken.
C18_TypedErrorsOnly ==
    jwt.done =>
        /\ (jwt.out.err = ErrNil /\ jwt.out.claims # NoClaims)
           \/ (jwt.out.claims = NoClaims
               /\ (ErrorsIs(jwt.out.err, ErrInvalidToken) \/ ErrorsIs(jwt.out.err, ErrExpiredToken)))
        /\ ~SignatureValid(ParseToken(jwt.tokenString)) => ErrorsIs(jwt.out.err, ErrInvalidToken)

\* C34: the claims ValidateToken returns without error carry an expiry that
\* is present and not before the time of the call.
C34_ExpiryPresentAndCurrent ==
    (jwt.done /\ jwt.out.err = ErrNil) =>
        /\ jwt.out.claims.exp # NoExp
        /\ ~(jwt.out.claims.exp < jwt.t)

(***************************************************************************)
(* Specification SpecDiscover: goroutines calling DiscoverPublicEndpoints  *)
(* concurrently and repeatedly.                                            *)
(***************************************************************************)
InitDiscover ==
    /\ cfg \in {c \in Configs : c.Enabled /\ c.PublicRPS = 1}
    /\ now = 0
    /\ ticks = 0
    /\ store = EmptyMap
    /\ publicEndpoints = DiscoverPublicEndpoints
    /\ reqs = [s \in Slots |-> Idle]
    /\ served = 0
    /\ kin = NoRequest
    /\ kout = NoOutput
    /\ rlog = << >>
    /\ auth = NoCall
    /\ jwt = NoValidation
    /\ registry \in {[NoRegistry EXCEPT !.files = f] :
                        f \in {MethodDescriptors, {d \in MethodDescriptors : ~isPublicEndpoint(d)}}}
    /\ marshal = NoMarshal
    /\ handlers = NoHandlers

\* a goroutine calls DiscoverPublicEndpoints
DiscoverCall(t) ==
    /\ registry.th[t].pc = "idle"
    /\ registry.th[t].calls < MaxDiscoverCalls
    /\ registry' = [registry EXCEPT !.th[t].pc = "lock", !.th[t].calls = @ + 1, !.th[t].ret = NilMap]
    /\ UNCHANGED <<pipeVars, auth, jwt, marshal, handlers>>

\* line 21: the caller gets the lock
DiscoverLock(t) ==
    /\ registry.th[t].pc = "lock"
    /\ LockFree(registry.mu)
    /\ registry' = [registry EXCEPT !.mu = t, !.th[t].pc = "check"]
    /\ UNCHANGED <<pipeVars, auth, jwt, marshal, handlers>>

\* lines 25-29: the cached map is returned, or a scan starts with a new map
DiscoverCheck(t) ==
    /\ registry.th[t].pc = "check"
    /\ registry' =
         IF CacheHit(registry.cache)
         THEN [registry EXCEPT !.th[t].ret = registry.cache, !.th[t].pc = "return"]
         ELSE [registry EXCEPT !.th[t].publicEndpoints = MakeMap({}), !.th[t].todo = registry.files,
                               !.scans = @ + 1, !.th[t].pc = "scan"]
    /\ UNCHANGED <<pipeVars, auth, jwt, marshal, handlers>>

\* lines 38-48: one method descriptor is visited
DiscoverScan(t) ==
    /\ registry.th[t].pc = "scan"
    /\ \E method \in registry.th[t].todo :
         registry' = [registry EXCEPT
             !.th[t].todo = @ \ {method},
             !.th[t].publicEndpoints =
                 IF isPublicEndpoint(method) THEN MakeMap(@.m \cup {FullMethodName(method)}) ELSE @]
    /\ UNCHANGED <<pipeVars, auth, jwt, marshal, handlers>>

\* mutant: the map is cached and returned while descriptors are left to visit
DiscoverStore_Early(t) ==
    /\ registry.th[t].pc = "scan"
    /\ registry' = [registry EXCEPT !.cache = registry.th[t].publicEndpoints,
                                    !.th[t].ret = registry.th[t].publicEndpoints,
                                    !.th[t].pc = "return"]
    /\ UNCHANGED <<pipeVars, auth, jwt, marshal, handlers>>

\* lines 54-55: the map is cached and returned
DiscoverStore(t) ==
    /\ registry.th[t].pc = "scan"
    /\ registry.th[t].todo = {}
    /\ registry' = [registry EXCEPT !.cache = registry.th[t].publicEndpoints,
                                    !.th[t].ret = registry.th[t].publicEndpoints,
                                    !.th[t].pc = "return"]
    /\ UNCHANGED <<pipeVars, auth, jwt, marshal, handlers>>

\* the deferred Unlock runs and the caller has its result
DiscoverReturn(t) ==
    /\ registry.th[t].pc = "return"
    /\ registry' = [registry EXCEPT !.mu = 0, !.returned = @ \cup {registry.th[t].ret},
                                    !.th[t].pc = "idle"]
    /\ UNCHANGED <<pipeVars, auth, jwt, marshal, handlers>>

\* main hands the map its call returned to NewAuthInterceptor.  The map of
\* the interceptor is the object the call returned: the only statement that
\* writes to a map (line 46) writes to the one its own call made at line 29,
\* before line 54 makes it known to anyone else.
NewAuthInterceptor(t) ==
    /\ registry.th[t].pc = "idle"
    /\ ~registry.th[t].ret.isNil
    /\ registry.interceptor.isNil
    /\ registry' = [registry EXCEPT !.interceptor = registry.th[t].ret]
    /\ UNCHANGED <<pipeVars, auth, jwt, marshal, handlers>>

\* a call through the interceptor looks its method up (Unary, line 44)
Lookup(method) ==
    /\ ~registry.interceptor.isNil
    /\ registry' = [registry EXCEPT !.lookups =
           @ \cup {[method |-> method, public |-> IsPublic(registry.interceptor.m, method)]}]
    /\ UNCHANGED <<pipeVars, auth, jwt, marshal, handlers>>

NextDiscover ==
    \/ \E t \in Callers :
           \/ DiscoverCall(t)
           \/ DiscoverLock(t)
           \/ DiscoverCheck(t)
           \/ DiscoverScan(t)
           \/ DiscoverStore(t)
           \/ DiscoverReturn(t)
           \/ NewAuthInterceptor(t)
    \/ \E method \in {PublicMethod, PrivateMethod} : Lookup(method)

SpecDiscover == InitDiscover /\ [][NextDiscover]_vars

\* C19: over any number of sequential and concurrent calls the scan of the
\* descriptors is started at most once, and exactly once when a call has
\* returned; every call returns the same set, the one of the methods marked
\* public; while one caller is past the lock no other caller is.
C19_SingleScan ==
    /\ registry.scans <= 1
    /\ registry.returned # {} => registry.scans = 1
    /\ registry.returned \subseteq
           {MakeMap({FullMethodName(d) : d \in {f \in registry.files : f.option = "true"}})}
    /\ \A t1, t2 \in Callers :
           (registry.th[t1].pc \in {"check", "scan", "return"}
              /\ registry.th[t2].pc \in {"check", "scan", "return"}) => t1 = t2

\* two first callers are in the call: one has scanned and cached the set and
\* is about to return it, the other still waits for the lock
C19_Witness ==
    \E t1, t2 \in Callers :
        /\ registry.th[t1].pc = "return" /\ registry.th[t1].calls = 1
        /\ registry.th[t1].ret = registry.cache /\ registry.cache.m # {}
        /\ registry.th[t2].pc = "lock" /\ registry.th[t2].calls = 1
        /\ registry.scans = 1 /\ registry.mu = t1

\* the set of the methods the registered descriptors mark public
PublicMethodsOf(files) == MakeMap({FullMethodName(d) : d \in {f \in files : f.option = "true"}})

\* C30: a call returns, the interceptor holds and a lookup sees the whole set
\* of the public methods only, never a part of it; from the first return on
\* the cached set, every returned set and the interceptor's set are that one
\* set, whatever discovery calls and lookups run meanwhile.
C30_NeverPartialNeverChanged ==
    /\ \A t \in Callers : registry.th[t].pc = "return" =>
           registry.th[t].ret = PublicMethodsOf(registry.files)
    /\ registry.returned # {} =>
           /\ registry.returned = {PublicMethodsOf(registry.files)}
           /\ registry.cache = PublicMethodsOf(registry.files)
    /\ ~registry.interceptor.isNil => registry.interceptor = PublicMethodsOf(registry.files)
    /\ \A l \in registry.lookups : l.public = (l.method \in PublicMethodsOf(registry.files).m)

\* lookups of both methods were made through the interceptor while another
\* goroutine is inside a later discovery call
C30_Witness ==
    /\ registry.interceptor.m = {PublicMethod}
    /\ registry.lookups = {[method |-> PublicMethod, public |-> TRUE],
                           [method |-> PrivateMethod, public |-> FALSE]}
    /\ \E t \in Callers : registry.th[t].pc = "return" /\ registry.mu = t /\ registry.th[t].calls = 2
    /\ registry.scans = 1

\* the identifier the AuthInterceptor receives for a call of method d
MethodIdentifier(d) ==
    IF d.name = "LoginMerchant" THEN PublicMethod
    ELSE IF d.name = "GetMerchant" THEN PrivateMethod
    ELSE <<"/", d.service, "/", d.name>>

\* C31: a set that DiscoverPublicEndpoints returns holds the key of a
\* registered method exactly when the method's option is present and true
\* (not when it is absent, false, not a bool, or the method has no options),
\* every key is "/" service "/" method of a registered method, and a lookup
\* with the identifier the interceptor receives finds exactly these methods.
C31_PublicIffAnnotatedTrue ==
    /\ \A ret \in registry.returned :
           /\ ~ret.isNil
           /\ \A d \in registry.files : (MethodIdentifier(d) \in ret.m) <=> (d.option = "true")
           /\ \A k \in ret.m : \E d \in registry.files :
                  k = <<"/", d.service, "/", d.name>> /\ k = MethodIdentifier(d)
    /\ \A l \in registry.lookups :
           \A d \in registry.files :
               MethodIdentifier(d) = l.method => (l.public <=> d.option = "true")

\* the registry holds methods with each state of the option, the set was
\* returned and the interceptor found the annotated method and not the other
C31_Witness ==
    /\ {d.option : d \in registry.files} = {"true", "false", "absent", "nil", "other"}
    /\ registry.returned = {MakeMap({PublicMethod})}
    /\ [method |-> PublicMethod, public |-> TRUE] \in registry.lookups
    /\ [method |-> PrivateMethod, public |-> FALSE] \in registry.lookups

(***************************************************************************)
(* Specification SpecMarshal: CustomMarshaler.Marshal applied to one value *)
(* drawn from error maps, status messages and payloads.                    *)
(***************************************************************************)
\* gRPC codes OK, Unknown, InvalidArgument, NotFound, PermissionDenied,
\* Internal and Unauthenticated, and two numbers that are no gRPC code
CodeValues == {0, 2, 3, 5, 7, 13, 16, 17, -1}

CodeTypes == {"int", "int32", "float64", "int64", "uint32", "json.Number", "string"}

Messages ==
    {[type |-> "string", str |-> <<"m","e","r","c","h","a","n","t"," ","n","o","t"," ","f","o","u","n","d">>, num |-> 0],
     [type |-> "string", str |-> << >>, num |-> 0],
     [type |-> "string", str |-> <<"a", "\"", "\\">>, num |-> 0],
     [type |-> "nil", str |-> << >>, num |-> 0],
     [type |-> "int", str |-> << >>, num |-> 7]}

ErrorMaps ==
    {[NoValue EXCEPT !.type = "map[string]interface{}", !.hasCode = TRUE, !.codeType = ct,
                     !.code = c, !.frac = f, !.hasMessage = TRUE, !.message = m] :
        ct \in CodeTypes, c \in {x \in CodeValues : x >= 0}, f \in {0, 5}, m \in Messages}
    \cup {[NoValue EXCEPT !.type = "map[string]interface{}", !.hasCode = TRUE, !.codeType = ct,
                          !.code = -1, !.hasMessage = TRUE, !.message = m] :
             ct \in CodeTypes \ {"uint32"}, m \in Messages}
    \cup {[NoValue EXCEPT !.type = "map[string]interface{}", !.hasCode = TRUE, !.codeType = "int",
                          !.code = c] : c \in CodeValues}
    \cup {[NoValue EXCEPT !.type = "map[string]interface{}", !.hasMessage = TRUE, !.message = m] :
             m \in Messages}

StatusMessages ==
    {[NoValue EXCEPT !.type = "*status.Status", !.codeType = "int32", !.code = c, !.message = m] :
        c \in CodeValues, m \in {x \in Messages : x.type = "string"}}

Payloads ==
    {[NoValue EXCEPT !.type = ty, !.fields = fs] :
        ty \in {"map[string]string", "proto.Message"},
        fs \in {<< >>, <<[name |-> <<"f","o","o">>, value |-> <<"b","a","r">>]>>,
                <<[name |-> <<"f","o","o">>, value |-> <<"a","\"",",","\\","}">>]>>,
                <<[name |-> <<"c","o","d","e">>, value |-> <<"5">>], [name |-> <<"m","e","s","s","a","g","e">>, value |-> <<"m","e","r","c","h","a","n","t"," ","n","o","t"," ","f","o","u","n","d">>]>>}}
    \cup {NoValue, [NoValue EXCEPT !.type = "chan"]}

MarshalInputs ==
    {v \in ErrorMaps : v.frac = 0 \/ v.codeType = "float64"} \cup StatusMessages \cup Payloads

InitMarshal ==
    /\ cfg \in {c \in Configs : c.Enabled /\ c.PublicRPS = 1}
    /\ now = 0
    /\ ticks = 0
    /\ store = EmptyMap
    /\ publicEndpoints = DiscoverPublicEndpoints
    /\ reqs = [s \in Slots |-> Idle]
    /\ served = 0
    /\ kin = NoRequest
    /\ kout = NoOutput
    /\ rlog = << >>
    /\ auth = NoCall
    /\ jwt = NoValidation
    /\ registry = NoRegistry
    /\ marshal \in {[NoMarshal EXCEPT !.v = v] : v \in MarshalInputs}
    /\ handlers = NoHandlers

MarshalCall ==
    /\ ~marshal.done
    /\ marshal' = [marshal EXCEPT !.done = TRUE, !.out = Marshal(marshal.v)]
    /\ UNCHANGED <<pipeVars, auth, jwt, registry, handlers>>

NextMarshal == MarshalCall

SpecMarshal == InitMarshal /\ [][NextMarshal]_vars

\* bytes is a JSON object with the members status, message and data of the
\* given texts, in some order
IsEnvelope(bytes, statusText, messageText, dataText) ==
    LET ms == <<<<"\"","s","t","a","t","u","s","\"",":">> \o statusText, <<"\"","m","e","s","s","a","g","e","\"",":">> \o messageText, <<"\"","d","a","t","a","\"",":">> \o dataText>>
    IN  \E i, j, k \in 1..3 :
            /\ {i, j, k} = {1, 2, 3}
            /\ bytes = <<"{">> \o ms[i] \o <<",">> \o ms[j] \o <<",">> \o ms[k] \o <<"}">>

\* the standard table from gRPC code to HTTP status
StandardHTTPStatus(code) ==
    CASE code = 1 -> 499
      [] code = 2 -> 500
      [] code = 3 -> 400
      [] code = 4 -> 504
      [] code = 5 -> 404
      [] code = 6 -> 409
      [] code = 7 -> 403
      [] code = 8 -> 429
      [] code = 9 -> 400
      [] code = 10 -> 409
      [] code = 11 -> 400
      [] code = 12 -> 501
      [] code = 13 -> 500
      [] code = 14 -> 503
      [] code = 15 -> 500
      [] code = 16 -> 401
      [] OTHER -> 500

\* a failure descriptor: an error map with a numeric code and a message, or
\* a status message
IsFailure(v) ==
    \/ v.type = "map[string]interface{}" /\ v.hasCode /\ v.hasMessage /\ v.codeType # "string"
    \/ v.type = "*status.Status"

\* C20: for a failure whose code arrives as int, int32, float64, another
\* numeric type or in a status message, Marshal returns the envelope whose
\* status is the standard HTTP status of the code (500 for an unknown code;
\* for the code 0, 200 of the table or 500), whose message is the failure's
\* message and whose data is null.
C20_StandardTable ==
    (marshal.done /\ IsFailure(marshal.v) /\ marshal.v.frac = 0) =>
        /\ ~marshal.out.err
        /\ \E st \in (IF marshal.v.code = 0 THEN {200, 500} ELSE {StandardHTTPStatus(marshal.v.code)}) :
               IsEnvelope(marshal.out.bytes, FormatInt(st), JSONValue(marshal.v.message), <<"n","u","l","l">>)

(***************************************************************************)
(* Reading the JSON text Marshal returns: the members of a JSON object and *)
(* the string a JSON string literal denotes.                               *)
(***************************************************************************)
\* the character at i follows an odd number of backslashes
Escaped(str, i) ==
    LET j == CHOOSE j \in 0..(i - 1) :
                 /\ j = 0 \/ str[j] # "\\"
                 /\ \A k \in (j + 1)..(i - 1) : str[k] = "\\"
    IN  (i - 1 - j) % 2 = 1

\* position i is inside a string literal (or at its closing quote)
InString(str, i) ==
    Cardinality({j \in 1..(i - 1) : str[j] = "\"" /\ ~Escaped(str, j)}) % 2 = 1

\* the number of objects and arrays open at position i
Depth(str, i) ==
    Cardinality({j \in 1..(i - 1) : str[j] \in {"{", "["} /\ ~InString(str, j)})
    - Cardinality({j \in 1..(i - 1) : str[j] \in {"}", "]"} /\ ~InString(str, j)})

\* str split at the occurrences of sep that are outside string literals and
\* outside nested objects and arrays
SplitTop(str, sep) ==
    LET P == {i \in 1..Len(str) : str[i] = sep /\ ~InString(str, i) /\ Depth(str, i) = 0}
        n == Cardinality(P)
        nth(k) == IF k = 0 THEN 0
                  ELSE IF k = n + 1 THEN Len(str) + 1
                  ELSE CHOOSE q \in P : Cardinality({r \in P : r < q}) = k - 1
    IN  [k \in 1..(n + 1) |-> SubSeq(str, nth(k - 1) + 1, nth(k) - 1)]

IsJSONObject(bytes) == Len(bytes) >= 2 /\ bytes[1] = "{" /\ bytes[Len(bytes)] = "}"

\* the member texts of a JSON object, in their order
ObjectMembers(bytes) ==
    IF Len(bytes) = 2 THEN << >> ELSE SplitTop(SubSeq(bytes, 2, Len(bytes) - 1), ",")

\* the string a JSON string literal denotes
RECURSIVE UnescapeJSON(_)
UnescapeJSON(str) ==
    IF Len(str) = 0 THEN << >>
    ELSE IF str[1] = "\\" /\ Len(str) >= 2 THEN <<str[2]>> \o UnescapeJSON(SubSeq(str, 3, Len(str)))
    ELSE <<str[1]>> \o UnescapeJSON(Tail(str))

IsJSONStringLiteral(txt) == Len(txt) >= 2 /\ txt[1] = "\"" /\ txt[Len(txt)] = "\""

DecodeString(txt) == UnescapeJSON(SubSeq(txt, 2, Len(txt) - 1))

\* every member text is "key":value
WellFormedMembers(bytes) ==
    LET ms == ObjectMembers(bytes)
    IN  \A i \in 1..Len(ms) :
            /\ Len(SplitTop(ms[i], ":")) = 2
            /\ IsJSONStringLiteral(SplitTop(ms[i], ":")[1])

\* the keys of a JSON object, in their order
ObjectKeys(bytes) ==
    LET ms == ObjectMembers(bytes)
    IN  [i \in 1..Len(ms) |-> DecodeString(SplitTop(ms[i], ":")[1])]

\* the text of the value of key in a JSON object that has the key once
ObjectValue(bytes, key) ==
    LET ms == ObjectMembers(bytes)
        i == CHOOSE i \in 1..Len(ms) : DecodeString(SplitTop(ms[i], ":")[1]) = key
    IN  SplitTop(ms[i], ":")[2]

KeyStatus == <<"s","t","a","t","u","s">>

KeyMessage == <<"m","e","s","s","a","g","e">>

KeyData == <<"d","a","t","a">>

NullText == <<"n","u","l","l">>

\* C21: in every envelope Marshal returns, a data that is not null comes from
\* a success payload only; the envelope of a failure (an error map with a
\* numeric code and a message, or a status message) has data null and as
\* status the HTTP status its code is mapped to (for the code 0, 200 or 500;
\* 500 for an unknown code).
C21_DataOnlyOnSuccess ==
    (marshal.done /\ ~marshal.out.err) =>
        /\ ObjectValue(marshal.out.bytes, KeyData) # NullText => ~IsFailure(marshal.v)
        /\ (IsFailure(marshal.v) /\ marshal.v.frac = 0) =>
               /\ ObjectValue(marshal.out.bytes, KeyData) = NullText
               /\ IsDecimal(ObjectValue(marshal.out.bytes, KeyStatus))
               /\ ParseNat(ObjectValue(marshal.out.bytes, KeyStatus))
                      \in (IF marshal.v.code = 0 THEN {200, 500} ELSE {StandardHTTPStatus(marshal.v.code)})

\* C22: every output of Marshal that is not an error, of the success path and
\* of both failure paths, is a JSON object with exactly three members, whose
\* keys are status, message and data.
C22_SameThreeKeys ==
    (marshal.done /\ ~marshal.out.err) =>
        /\ IsJSONObject(marshal.out.bytes)
        /\ WellFormedMembers(marshal.out.bytes)
        /\ Len(ObjectKeys(marshal.out.bytes)) = 3
        /\ {ObjectKeys(marshal.out.bytes)[i] : i \in 1..3} = {KeyStatus, KeyMessage, KeyData}

\* the three paths: an error map whose message holds a quote, a status
\* message, a payload whose field holds a comma and a brace
C22_Witness ==
    /\ marshal.done /\ ~marshal.out.err
    /\ marshal.v.type = "map[string]interface{}" /\ marshal.v.hasCode /\ marshal.v.hasMessage
    /\ marshal.v.message.str = <<"a", "\"", "\\">>
    /\ ObjectKeys(marshal.out.bytes) = <<KeyData, KeyMessage, KeyStatus>>
    /\ \E v \in Payloads : ~Marshal(v).err /\ Len(v.fields) = 1 /\ v.fields[1].value = <<"a","\"",",","\\","}">>
                             /\ ObjectKeys(Marshal(v).bytes) = <<KeyStatus, KeyMessage, KeyData>>
    /\ \E v \in StatusMessages : ObjectKeys(Marshal(v).bytes) = <<KeyData, KeyMessage, KeyStatus>>

\* a payload: a value that is neither an error map with code and message nor
\* a status message
IsPayload(v) ==
    /\ ~(v.type = "map[string]interface{}" /\ v.hasCode /\ v.hasMessage)
    /\ v.type # "*status.Status"

\* the fields the JSON object txt holds, as a set of name and value
DecodedFields(txt) ==
    LET ms == ObjectMembers(txt)
    IN  {[name |-> DecodeString(SplitTop(ms[i], ":")[1]), value |-> DecodeString(SplitTop(ms[i], ":")[2])] :
            i \in 1..Len(ms)}

\* C23: for a payload that has a JSON form Marshal returns the envelope with
\* status 200, message "success" and as data the payload's serialization:
\* null for a nil payload, else an object that decodes to the payload's
\* fields, names and values unchanged.
C23_SuccessRoundTrip ==
    (marshal.done /\ IsPayload(marshal.v) /\ marshal.v.type \notin {"chan", "map[string]interface{}"}) =>
        /\ ~marshal.out.err
        /\ IsJSONObject(marshal.out.bytes) /\ WellFormedMembers(marshal.out.bytes)
        /\ ObjectValue(marshal.out.bytes, KeyStatus) = <<"2", "0", "0">>
        /\ DecodeString(ObjectValue(marshal.out.bytes, KeyMessage)) = <<"s","u","c","c","e","s","s">>
        /\ IF marshal.v.type = "nil"
           THEN ObjectValue(marshal.out.bytes, KeyData) = NullText
           ELSE /\ IsJSONObject(ObjectValue(marshal.out.bytes, KeyData))
                /\ WellFormedMembers(ObjectValue(marshal.out.bytes, KeyData))
                /\ Len(ObjectKeys(ObjectValue(marshal.out.bytes, KeyData))) = Len(marshal.v.fields)
                /\ DecodedFields(ObjectValue(marshal.out.bytes, KeyData))
                       = {marshal.v.fields[i] : i \in 1..Len(marshal.v.fields)}

\* the payload {"foo": "bar"} and one whose value needs escaping
C23_Witness ==
    /\ marshal.done /\ ~marshal.out.err
    /\ marshal.v.fields = <<[name |-> <<"f","o","o">>, value |-> <<"a","\"",",","\\","}">>]>>
    /\ Marshal([NoValue EXCEPT !.type = "map[string]string",
                               !.fields = <<[name |-> <<"f","o","o">>, value |-> <<"b","a","r">>]>>]).bytes = <<"{","\"","s","t","a","t","u","s","\"",":","2","0","0",",","\"","m","e","s","s","a","g","e","\"",":","\"","s","u","c","c","e","s","s","\"",",","\"","d","a","t","a","\"",":","{","\"","f","o","o","\"",":","\"","b","a","r","\"","}","}">>

\* C36: in every envelope Marshal returns, status is 200 exactly when the
\* value was a payload: a failure descriptor (an error map with code and
\* message of any code type and value, or a status message) never has status
\* 200, and a payload has status 200 and the message "success".
C36_OKIffPayload ==
    (marshal.done /\ ~marshal.out.err) =>
        /\ IsDecimal(ObjectValue(marshal.out.bytes, KeyStatus))
        /\ ParseNat(ObjectValue(marshal.out.bytes, KeyStatus)) = 200 <=> IsPayload(marshal.v)
        /\ IsPayload(marshal.v) =>
               ObjectValue(marshal.out.bytes, KeyMessage) = JSONString(<<"s","u","c","c","e","s","s">>)

\* C32: when the interceptor has forwarded a call, the caller gets the
\* invoker's result unchanged; the envelope written for a failure of the
\* backend has the failure's message, a status other than 200 (the HTTP
\* status of its code) and data null, and only a call without error is
\* answered with status 200.
C32_FailureNeverSwallowed ==
    \A s \in Slots :
        (reqs[s].pc = "done" /\ reqs[s].invokerCalls = 1) =>
            LET ms == ObjectMembers(reqs[s].body)
                member(key) == CHOOSE i \in 1..Len(ms) : DecodeString(SplitTop(ms[i], ":")[1]) = key
                value(key) == SplitTop(ms[member(key)], ":")[2]
            IN  /\ reqs[s].rpcErr = reqs[s].backendErr
                /\ IsJSONObject(reqs[s].body)
                /\ \A i \in 1..Len(ms) : Len(SplitTop(ms[i], ":")) = 2
                                            /\ IsJSONStringLiteral(SplitTop(ms[i], ":")[1])
                /\ IF reqs[s].backendErr = NilError
                   THEN reqs[s].status = 200 /\ value(KeyStatus) = <<"2","0","0">>
                   ELSE /\ reqs[s].status # 200
                        /\ value(KeyStatus) # <<"2","0","0">>
                        /\ value(KeyStatus) = FormatInt(HTTPStatusFromCode(reqs[s].backendErr.code))
                        /\ DecodeString(value(KeyMessage)) = MessageChars(reqs[s].backendErr.msg)
                        /\ value(KeyData) = NullText

\* a validated call that the backend failed with "merchant not found"
C32_Witness ==
    \E s \in Slots :
        /\ reqs[s].pc = "done" /\ reqs[s].invokerCalls = 1 /\ reqs[s].validated
        /\ reqs[s].backendErr.code = 5 /\ reqs[s].status = 404
        /\ DecodeString(ObjectValue(reqs[s].body, KeyMessage)) = MessageChars("merchant not found")

\* a request the CORS middleware has handled
PastCORS(q) == q.pc \notin {"idle", "CORS"}

\* the preflight was answered by the CORS middleware alone
AnsweredByCORS(q) ==
    /\ q.pc = "done" /\ q.status = StatusOK /\ q.statusBy = "CORS"
    /\ q.header = CORSHeaders
    /\ q.trace = <<"CORS">>
    /\ q.nextCalls = 0 /\ q.storeCalls = 0 /\ q.key = NoKey
    /\ q.ctxIn = NoCtx /\ q.invokerCalls = 0 /\ q.backendErr = NilError /\ q.body = << >>

\* the request went through the CORS middleware once, which set its headers
\* and called the next handler once
PassedOnOnce(q) ==
    /\ \A k \in DOMAIN CORSHeaders : k \in DOMAIN q.header /\ q.header[k] = CORSHeaders[k]
    /\ Cardinality({i \in 1..Len(q.trace) : q.trace[i] = "CORS"}) = 1 /\ q.trace[1] = "CORS"
    /\ IF q.pc = NextHandler("CORS")
       THEN q.trace = <<"CORS">>
       ELSE Cardinality({i \in 1..Len(q.trace) : q.trace[i] = NextHandler("CORS")}) = 1
            /\ q.trace[2] = NextHandler("CORS")

\* C37: the CORS middleware answers an OPTIONS request itself, with status
\* 200 and the four Access-Control headers, and the request reaches neither
\* the rate limiter, the Counter Store, the interceptor nor a backend, and
\* the step that answers it leaves the Counter Store as it is; a request of
\* another method is passed to the next handler exactly once, with the same
\* headers set.
C37_PreflightStopsAtCORS ==
    /\ [](\A s \in Slots :
            /\ (reqs[s].in.method = "OPTIONS" /\ PastCORS(reqs[s])) => AnsweredByCORS(reqs[s])
            /\ (reqs[s].in.method # "OPTIONS" /\ PastCORS(reqs[s])) => PassedOnOnce(reqs[s]))
    /\ [][\A s \in Slots :
            (reqs[s].in.method = "OPTIONS" /\ reqs[s].pc = "CORS" /\ reqs'[s].pc # "CORS") =>
                store' = store /\ rlog' = rlog]_vars

\* a preflight answered after a request that was counted in the store, and
\* the four headers it got
C37_Witness ==
    \E s \in Slots :
        /\ reqs[s].in.method = "OPTIONS" /\ reqs[s].pc = "done" /\ reqs[s].status = StatusOK
        /\ DOMAIN reqs[s].header = {"Access-Control-Allow-Origin", "Access-Control-Allow-Methods",
                                     "Access-Control-Allow-Headers", "Access-Control-Allow-Credentials"}
        /\ served = 2 /\ store # EmptyMap

====
